---- MODULE Spec2Model ----
(***************************************************************************)
(* A model of the task scheduling core of garden: the tasks handed to      *)
(* Garden.processTasks (DeleteServiceTask and the BaseTask key scheme),    *)
(* the dependency-graph task executor behind it, and the scoped            *)
(* invalidation cache (TreeCache) with the file watcher's invalidation.    *)
(***************************************************************************)
EXTENDS Naturals, Integers, Sequences, FiniteSets, TLC

\* ------------------------------------------------------------------------
\* Bounds of the model
\* ------------------------------------------------------------------------

\* The most root tasks one processTasks call is given.
MaxRoots == 2

\* The largest concurrencyLimit a caller passes.
MaxLimit == 2

\* The most task instances constructed during one processTasks call.
MaxUid == 12

\* The most contexts one cache.set call names.
MaxContexts == 2

\* The most changes made to one module's files.
MaxRev == 1

\* The most calls made to the VCS.
MaxVcsCalls == 2

\* The most files a module has.
MaxFiles == 2

\* The most concurrent callers of ensureNamespace.
MaxCallers == 2

\* The most maven-container builds running at once.
MaxBuilds == 3

\* The most version strings a module goes through.
MaxVersion == 2

\* The most concurrent callers of resolveProviders, and the most times the
\* provider tasks are handed to processTasks.
MaxResolvers == 2

MaxAttempts == 2

\* The most syncToService calls made one after the other.
MaxSyncs == 2

\* The most modules handed to autoReloadModules.
MaxInputs == 2

\* The most tfValidate calls made one after the other.
MaxValidations == 2

\* The most concurrent callers of scanModules.
MaxScanners == 2

\* The services of the project, in the order the config graph lists them.
ServiceOrder == <<"a", "b", "c">>

ServiceNames == {ServiceOrder[i] : i \in 1..Len(ServiceOrder)}

VARIABLES
  graph,              \* ConfigGraph: service name -> the services that depend on it
  includeDependants,  \* the flag the caller constructs its DeleteServiceTasks with
  rootTasks,          \* the tasks handed to processTasks
  opts,               \* the caller's ProcessTasksOpts: [limited, concurrencyLimit]
  processOpts,        \* the options TaskGraph.process received
  uidCounter,         \* the uid source (uuidv1 is time ordered)
  phase,              \* "idle", "expanding", "executing", "returned", "raised"
  worklist,           \* tasks whose dependencies are still to be computed
  nodes,              \* key -> the task instance that represents the key
  depKeys,            \* key -> the keys of its dependencies
  status,             \* key -> "pending", "running", "done", "failed", "failed-by-propagation"
  results,            \* key -> TaskResult
  returned,           \* the value of the process() call, once it has ended
  instances,          \* every task instance constructed so far
  runs,               \* uid -> the invocation of that instance's process()
  cache,              \* TreeCache: key -> [value, contexts]
  lastOp,             \* the cache operation made last: [op, path, removed]
  modules,            \* the module list FSWatcher.watchModules was given
  watch,              \* the watcher event handled last: [pc, kind, path, hasConfig, log]
  tree,               \* the working tree: module name -> [rev, dirty, unseen]; unseen is set
                      \*   while the watcher has not handled the module's last change
  vcsCalls,           \* the calls made to vcs.resolveVersion so far; the clock of the VCS
  call,               \* the resolveVersion call made last: [pc, moduleName, moduleDependencies,
                      \*   force, cacheKey, version, calledVcs]
  files,              \* the file list the VCS reported: a sequence of [path, hash]
  dependencyVersions, \* the versions of the dependencies: a sequence of [name, versionString]
  hashed,             \* the version hashed last: [files, dependencyVersions, versionString]
  created,            \* local.ts `created`: namespace name -> "none" (no entry), "pending", "created"
  cluster,            \* the phase of each namespace in the cluster: "absent", "Active", "Terminating"
  callers,            \* the ensureNamespace call of each caller: [pc, namespace]
  createCalls,        \* namespace name -> the createNamespace calls made for it
  builds,             \* maven-container build call -> "idle", "preparing", "waiting", "mvn", "copying", "done", "raised"
  buildLock,          \* the "mvn" key of the AsyncLock: [holder, queue]; holder 0 is nobody
  withSubmodules,     \* the files ls-files listed: a sequence of [path, hash, modified, disk]
  freshHashes,        \* index in withSubmodules -> what the mapper returned: [path, hash, state]
  getFilesResult,     \* what getFiles settled with: [status, files]
  moduleVersion,      \* the versionString the module has now: 1..MaxVersion
  versionFile,        \* the build version file: [readable, versionString]
  buildCall,          \* the build handler call made last: [pc, plugin, version, hasCommand, exit]
  buildStatus,        \* what getBuildStatus reported last: [asked, ready, version]
  pluginDeps,         \* provider name -> the providers it depends on
  resolvedProviders,  \* Garden.resolvedProviders: [set, providers]; set is FALSE while undefined
  addedModules,       \* the providers whose module configs were added to the project
  resolveLock,        \* the "resolve-providers" key of the AsyncLock: [holder, queue]
  resolvers,          \* the resolveProviders call of each caller: [pc, forceInit, waited, taskResults, result]
  attempts,           \* the processTasks calls resolveProviders has made
  sync,               \* the syncToService call: [pc, postSyncCommand, attempts, killed, error]
  syncCalls,          \* the syncToService calls made
  buildDependencies,  \* module name -> the names module.getBuildDependencies() resolves to
  serviceDependencies,\* module name -> the modules of module.getServiceDependencies()
  reload,             \* the autoReloadModules call: [pc, modules, inputs, stack, moduleSet, result]
  tf,                 \* the tfValidate call: [pc, runs, inits, error]
  tfCalls,            \* the tfValidate calls made
  configsOnDisk,      \* the module configs the scan finds under the project root, in the order they are loaded
  moduleConfigs,      \* Garden.moduleConfigs: module key -> the path of the registered config, "" for none
  modulesScanned,     \* Garden.modulesScanned
  scanLock,           \* the "scan-modules" key of the AsyncLock: [holder, queue]
  scanners            \* the scanModules call of each caller: [pc, force, error]

schedVars == <<graph, includeDependants, rootTasks, opts, processOpts, uidCounter, phase, worklist,
               nodes, depKeys, status, results, returned, instances, runs>>

cacheVars == <<cache, lastOp>>

watchVars == <<modules, watch>>

versionVars == <<tree, vcsCalls, call>>

hashVars == <<files, dependencyVersions, hashed>>

namespaceVars == <<created, cluster, callers, createCalls>>

mavenVars == <<builds, buildLock>>

getFilesVars == <<withSubmodules, freshHashes, getFilesResult>>

buildVars == <<moduleVersion, versionFile, buildCall, buildStatus>>

providerVars == <<pluginDeps, resolvedProviders, addedModules, resolveLock, resolvers, attempts>>

syncVars == <<sync, syncCalls>>

reloadVars == <<buildDependencies, serviceDependencies, reload>>

terraformVars == <<tf, tfCalls>>

scanVars == <<configsOnDisk, moduleConfigs, modulesScanned, scanLock, scanners>>

\* What the scheduler's steps leave alone, and what the cache's steps leave alone.
nonSchedVars == <<cacheVars, watchVars, versionVars, hashVars, namespaceVars, mavenVars, getFilesVars, buildVars, providerVars, syncVars, reloadVars, terraformVars, scanVars>>

nonCacheVars == <<schedVars, watchVars, versionVars, hashVars, namespaceVars, mavenVars, getFilesVars, buildVars, providerVars, syncVars, reloadVars, terraformVars, scanVars>>

\* What the watcher's steps leave alone: they clear cache entries.
nonWatchVars == <<schedVars, versionVars, hashVars, namespaceVars, mavenVars, getFilesVars, buildVars, providerVars, syncVars, reloadVars, terraformVars, scanVars>>

\* What the steps of resolveVersion leave alone: they read and fill the cache.
nonVersionVars == <<schedVars, watchVars, hashVars, namespaceVars, mavenVars, getFilesVars, buildVars, providerVars, syncVars, reloadVars, terraformVars, scanVars>>

nonHashVars == <<schedVars, cacheVars, watchVars, versionVars, namespaceVars, mavenVars, getFilesVars, buildVars, providerVars, syncVars, reloadVars, terraformVars, scanVars>>

nonNamespaceVars == <<schedVars, cacheVars, watchVars, versionVars, hashVars, mavenVars, getFilesVars, buildVars, providerVars, syncVars, reloadVars, terraformVars, scanVars>>

nonMavenVars == <<schedVars, cacheVars, watchVars, versionVars, hashVars, namespaceVars, getFilesVars, buildVars, providerVars, syncVars, reloadVars, terraformVars, scanVars>>

nonGetFilesVars == <<schedVars, cacheVars, watchVars, versionVars, hashVars, namespaceVars, mavenVars, buildVars, providerVars, syncVars, reloadVars, terraformVars, scanVars>>

nonBuildVars == <<schedVars, cacheVars, watchVars, versionVars, hashVars, namespaceVars, mavenVars, getFilesVars, providerVars, syncVars, reloadVars, terraformVars, scanVars>>

nonProviderVars == <<schedVars, cacheVars, watchVars, versionVars, hashVars, namespaceVars, mavenVars, getFilesVars, buildVars, syncVars, reloadVars, terraformVars, scanVars>>

nonSyncVars == <<schedVars, cacheVars, watchVars, versionVars, hashVars, namespaceVars, mavenVars, getFilesVars, buildVars, providerVars, reloadVars, terraformVars, scanVars>>

nonReloadVars == <<schedVars, cacheVars, watchVars, versionVars, hashVars, namespaceVars, mavenVars, getFilesVars, buildVars, providerVars, syncVars, terraformVars, scanVars>>

nonTerraformVars == <<schedVars, cacheVars, watchVars, versionVars, hashVars, namespaceVars, mavenVars, getFilesVars, buildVars, providerVars, syncVars, reloadVars, scanVars>>

nonScanVars == <<schedVars, cacheVars, watchVars, versionVars, hashVars, namespaceVars, mavenVars, getFilesVars, buildVars, providerVars, syncVars, reloadVars, terraformVars>>

vars == <<schedVars, cacheVars, watchVars, versionVars, hashVars, namespaceVars, mavenVars, getFilesVars, buildVars, providerVars, syncVars, reloadVars, terraformVars, scanVars>>

\* ------------------------------------------------------------------------
\* Tasks (tasks/base.ts, tasks/delete-service.ts)
\* ------------------------------------------------------------------------

EmptyMap == [x \in {} |-> x]

makeBaseKey(type, name) == type \o "." \o name

\* new DeleteServiceTask({ service, includeDependants }): BaseTask's constructor
\* draws the uid.
DeleteServiceTask(service, include, uid) ==
  [type |-> "delete-service", name |-> service, includeDependants |-> include, uid |-> uid]

getName(task) == task.name

\* getKey with the uid appended, as getId has it: no two instances share a key.
getKeyWithUid(task) == makeBaseKey(task.type, getName(task)) \o "." \o ToString(task.uid)

\* getKey without the name: every task of one type shares a key.
getKeyTypeOnly(task) == task.type

getKey(task) == makeBaseKey(task.type, getName(task))

getId(task) == getKey(task) \o "." \o ToString(task.uid)

\* getDependencies with the includeDependants test inverted.
getDependenciesInverted(task, g, uid0) ==
  IF task.includeDependants
    THEN <<>>
    ELSE LET deps == SelectSeq(ServiceOrder, LAMBDA s : s \in g[getName(task)])
         IN [i \in 1..Len(deps) |->
               DeleteServiceTask(deps[i], task.includeDependants, uid0 + i)]

\* Dependencies that are not asked to include their own dependants.
getDependenciesOnce(task, g, uid0) ==
  IF ~task.includeDependants
    THEN <<>>
    ELSE LET deps == SelectSeq(ServiceOrder, LAMBDA s : s \in g[getName(task)])
         IN [i \in 1..Len(deps) |-> DeleteServiceTask(deps[i], FALSE, uid0 + i)]

\* The dependants of the task's service, each wrapped in a new DeleteServiceTask;
\* none when includeDependants is off.
getDependencies(task, g, uid0) ==
  IF ~task.includeDependants
    THEN <<>>
    ELSE LET deps == SelectSeq(ServiceOrder, LAMBDA s : s \in g[getName(task)])
         IN [i \in 1..Len(deps) |->
               DeleteServiceTask(deps[i], task.includeDependants, uid0 + i)]

\* What actions.deleteService does for a service: it returns the service's status,
\* or it throws.
DeleteServiceOutcomes == {"deleted", "error"}

\* DeleteServiceTask.process: the status deleteService returned, or its error
\* rethrown. The status carries the id of the task that obtained it.
process(task, deleteService) ==
  IF deleteService = "error"
    THEN [threw |-> TRUE, output |-> ""]
    ELSE [threw |-> FALSE, output |-> getId(task)]

\* ------------------------------------------------------------------------
\* The task graph (task-graph.ts), entered through Garden.processTasks
\* ------------------------------------------------------------------------

\* An options object without concurrencyLimit: every eligible task may run at once.
DefaultOpts == [limited |-> FALSE, concurrencyLimit |-> 0]

\* processTasks calling TaskGraph.process(tasks) without its opts.
processTasksOptsDropped(o) == DefaultOpts

\* Garden.processTasks hands its opts on to TaskGraph.process unchanged.
processTasksOpts(o) == o

NoError == [kind |-> "none", cause |-> ""]

TerminalStates == {"done", "failed", "failed-by-propagation"}

RECURSIVE Reach(_, _, _)
\* The keys one or more dependency edges away from the keys of `front`.
Reach(dk, seen, front) ==
  LET next == UNION {dk[k] : k \in front \cap DOMAIN dk}
  IN IF next \subseteq seen THEN seen ELSE Reach(dk, seen \cup next, next \ seen)

\* The transitive dependencies of key k.
DependenciesOf(dk, k) == Reach(dk, {}, {k})

\* Only the keys that depend on key k directly.
DirectDependantsOf(dk, k) == {j \in DOMAIN dk : k \in dk[j]}

\* The keys that transitively depend on key k.
DependantsOf(dk, k) == {j \in DOMAIN dk : k \in DependenciesOf(dk, j)}

\* Cycle detection that only sees a key depending on itself.
detectSelfLoops(dk) == {{k} : k \in {x \in DOMAIN dk : x \in dk[x]}}

\* The cycles of the key graph, each as the set of keys on it.
detectCycles(dk) ==
  {{j \in DOMAIN dk : j \in DependenciesOf(dk, k) /\ k \in DependenciesOf(dk, j)} :
     k \in {x \in DOMAIN dk : x \in DependenciesOf(dk, x)}}

Running == {k \in DOMAIN status : status[k] = "running"}

\* A pending task whose dependencies have all completed successfully.
Eligible(k) ==
  /\ status[k] = "pending"
  /\ \A d \in depKeys[k] : d \in DOMAIN status /\ status[d] = "done"

\* A capacity test under which a failed task keeps its slot.
HasCapacityLeak ==
  \/ ~processOpts.limited
  \/ Cardinality({k \in DOMAIN status : status[k] \in {"running", "failed"}})
       < processOpts.concurrencyLimit

\* Room for one more in-flight task under the call's concurrencyLimit.
HasCapacity ==
  ~processOpts.limited \/ Cardinality(Running) < processOpts.concurrencyLimit

\* A completion test that only looks for tasks in flight.
NothingRunning == \A k \in DOMAIN status : status[k] # "running"

\* Nothing is left to run or to wait for.
Finished == \A k \in DOMAIN status : status[k] \in TerminalStates

\* Of two instances with one key, the one created last represents the key.
Representative(old, new) == IF new.uid > old.uid THEN new ELSE old

\* Garden.processTasks(tasks, opts): the call enters TaskGraph.process.
ProcessTasks ==
  /\ phase = "idle"
  /\ phase' = "expanding"
  /\ processOpts' = processTasksOpts(opts)
  /\ worklist' = rootTasks
  /\ UNCHANGED <<graph, includeDependants, rootTasks, opts, uidCounter, nodes, depKeys,
                 status, results, returned, instances, runs>>
  /\ UNCHANGED nonSchedVars

\* Expansion and deduplication: the next task of the worklist joins the graph
\* under its key; a key seen before is not expanded again.
Expand ==
  /\ phase = "expanding"
  /\ worklist # <<>>
  /\ LET t == Head(worklist)
         k == getKey(t)
     IN IF k \in DOMAIN nodes
          THEN /\ nodes' = [nodes EXCEPT ![k] = Representative(@, t)]
               /\ worklist' = Tail(worklist)
               /\ UNCHANGED <<depKeys, status, uidCounter, instances>>
          ELSE LET deps == getDependencies(t, graph, uidCounter)
               IN /\ uidCounter + Len(deps) <= MaxUid
                  /\ nodes' = nodes @@ (k :> t)
                  /\ depKeys' = depKeys @@ (k :> {getKey(deps[i]) : i \in 1..Len(deps)})
                  /\ status' = status @@ (k :> "pending")
                  /\ worklist' = Tail(worklist) \o deps
                  /\ uidCounter' = uidCounter + Len(deps)
                  /\ instances' = instances \cup {deps[i] : i \in 1..Len(deps)}
  /\ UNCHANGED <<graph, includeDependants, rootTasks, opts, processOpts, phase, results,
                 returned, runs>>
  /\ UNCHANGED nonSchedVars

\* Cycle detection over the keys, before anything runs: one error naming every
\* cycle ends the call.
Plan ==
  /\ phase = "expanding"
  /\ worklist = <<>>
  /\ LET cycles == detectCycles(depKeys)
     IN IF cycles # {}
          THEN /\ phase' = "raised"
               /\ returned' = [error |-> "cycles", cycles |-> cycles, results |-> EmptyMap]
          ELSE /\ phase' = "executing"
               /\ UNCHANGED returned
  /\ UNCHANGED <<graph, includeDependants, rootTasks, opts, processOpts, uidCounter,
                 worklist, nodes, depKeys, status, results, instances, runs>>
  /\ UNCHANGED nonSchedVars

\* An eligible task starts: its process() is invoked with its dependencies' results.
Start(k) ==
  /\ phase = "executing"
  /\ k \in DOMAIN status
  /\ Eligible(k)
  /\ HasCapacity
  /\ status' = [status EXCEPT ![k] = "running"]
  /\ runs' = runs @@ (nodes[k].uid :>
                [task |-> nodes[k], state |-> "running",
                 dependencyResults |-> [d \in depKeys[k] |-> results[d]]])
  /\ UNCHANGED <<graph, includeDependants, rootTasks, opts, processOpts, uidCounter, phase,
                 worklist, nodes, depKeys, results, returned, instances>>
  /\ UNCHANGED nonSchedVars

\* The running task's process() returns its output.
Complete(k) ==
  /\ phase = "executing"
  /\ k \in DOMAIN status
  /\ status[k] = "running"
  /\ \E outcome \in DeleteServiceOutcomes :
       LET r == process(nodes[k], outcome)
       IN /\ ~r.threw
          /\ results' = results @@ (k :> [type |-> nodes[k].type, name |-> getName(nodes[k]),
                                          output |-> r.output, error |-> NoError])
  /\ status' = [status EXCEPT ![k] = "done"]
  /\ runs' = [runs EXCEPT ![nodes[k].uid].state = "ok"]
  /\ UNCHANGED <<graph, includeDependants, rootTasks, opts, processOpts, uidCounter, phase,
                 worklist, nodes, depKeys, returned, instances>>
  /\ UNCHANGED nonSchedVars

\* The running task's process() throws: the task fails, and every task that
\* transitively depends on it fails by propagation without being run.
Fail(k) ==
  /\ phase = "executing"
  /\ k \in DOMAIN status
  /\ status[k] = "running"
  /\ \E outcome \in DeleteServiceOutcomes : process(nodes[k], outcome).threw
  /\ LET skipped == {j \in DependantsOf(depKeys, k) : status[j] = "pending"}
     IN /\ status' = [j \in DOMAIN status |->
                        IF j = k THEN "failed"
                        ELSE IF j \in skipped THEN "failed-by-propagation"
                        ELSE status[j]]
        /\ results' = results @@
             [j \in {k} \cup skipped |->
                [type |-> nodes[j].type, name |-> getName(nodes[j]), output |-> "",
                 error |-> IF j = k THEN [kind |-> "failed", cause |-> k]
                           ELSE [kind |-> "dependency-failed", cause |-> k]]]
  /\ runs' = [runs EXCEPT ![nodes[k].uid].state = "threw"]
  /\ UNCHANGED <<graph, includeDependants, rootTasks, opts, processOpts, uidCounter, phase,
                 worklist, nodes, depKeys, returned, instances>>
  /\ UNCHANGED nonSchedVars

\* Every task is in a terminal state: process() returns the result map.
Return ==
  /\ phase = "executing"
  /\ Finished
  /\ phase' = "returned"
  /\ returned' = [error |-> "none", cycles |-> {}, results |-> results]
  /\ UNCHANGED <<graph, includeDependants, rootTasks, opts, processOpts, uidCounter,
                 worklist, nodes, depKeys, status, results, instances, runs>>
  /\ UNCHANGED nonSchedVars

\* ------------------------------------------------------------------------
\* The scheduler's specification
\* ------------------------------------------------------------------------

\* A new TreeCache.
CacheEmpty ==
  /\ cache = EmptyMap
  /\ lastOp = [op |-> "none", path |-> "", removed |-> {}]

\* A watcher that has handled no event yet.
NoEvent == [pc |-> "idle", kind |-> "none", path |-> "", hasConfig |-> FALSE, log |-> <<>>]

\* No watcher was started.
WatchIdle ==
  /\ modules = <<>>
  /\ watch = NoEvent

\* The names of the project's modules, in the order Array.prototype.sort puts
\* them (by UTF-16 code units).
ModuleNames == <<"modA", "modAB", "modB">>

\* dirtyTimestamp: null
NullTimestamp == 0

NoVersion == [versionString |-> <<>>, dirtyTimestamp |-> NullTimestamp]

\* No resolveVersion call was made.
NoCall ==
  [pc |-> "idle", moduleName |-> "", moduleDependencies |-> <<>>, force |-> FALSE,
   cacheKey |-> <<>>, version |-> NoVersion, calledVcs |-> FALSE]

\* A committed working tree, and no version asked for yet.
VersionIdle ==
  /\ tree = [n \in {ModuleNames[i] : i \in 1..Len(ModuleNames)} |-> [rev |-> 0, dirty |-> FALSE, unseen |-> FALSE]]
  /\ vcsCalls = 0
  /\ call = NoCall


\* No version string was computed yet.
NoHash == [files |-> <<>>, dependencyVersions |-> <<>>, versionString |-> <<>>]

\* A module without files or dependencies, and nothing hashed.
HashIdle ==
  /\ files = <<>>
  /\ dependencyVersions = <<>>
  /\ hashed = NoHash


\* The namespaces ensureNamespace is asked for.
Namespaces == {"ns1", "ns2"}

\* The callers of ensureNamespace.
Callers == 1..MaxCallers

\* No ensureNamespace call was made in this process, and the cluster is empty.
NamespacesIdle ==
  /\ created = [n \in Namespaces |-> "none"]
  /\ cluster = [n \in Namespaces |-> "absent"]
  /\ callers = [c \in Callers |-> [pc |-> "idle", namespace |-> ""]]
  /\ createCalls = [n \in Namespaces |-> 0]


\* The maven-container builds that may run at once.
Builds == 1..MaxBuilds

\* No build was started, and nobody holds the "mvn" lock.
MavenIdle ==
  /\ builds = [b \in Builds |-> "idle"]
  /\ buildLock = [holder |-> 0, queue |-> <<>>]


\* getFiles has not settled.
NoFiles == [status |-> "pending", files |-> <<>>]

\* Nothing was listed.
GetFilesIdle ==
  /\ withSubmodules = <<>>
  /\ freshHashes = <<>>
  /\ getFilesResult = NoFiles


\* No version file, or one that cannot be read (an outdated format).
NoVersionFile == [readable |-> FALSE, versionString |-> 0]

\* No build was asked for.
NoBuild == [pc |-> "idle", plugin |-> "", version |-> 0, hasCommand |-> FALSE, exit |-> "none"]

\* A module that was never built and whose status was never asked for.
BuildIdle ==
  /\ moduleVersion = 1
  /\ versionFile = NoVersionFile
  /\ buildCall = NoBuild
  /\ buildStatus = [asked |-> FALSE, ready |-> FALSE, version |-> 0]


\* The configured providers, and the callers of resolveProviders.
Providers == {"p1", "p2"}

Resolvers == 1..MaxResolvers

\* resolvedProviders while it is undefined.
Unresolved == [set |-> FALSE, providers |-> 0]

\* The task results of a call that has not processed its tasks.
NoTaskResults == [p \in Providers |-> [error |-> FALSE]]

\* A caller that has not called resolveProviders.
NoResolver ==
  [pc |-> "idle", forceInit |-> FALSE, waited |-> FALSE, taskResults |-> NoTaskResults,
   result |-> Unresolved]

\* Providers without dependencies, and no resolveProviders call made.
ProvidersIdle ==
  /\ pluginDeps = [p \in Providers |-> {}]
  /\ resolvedProviders = Unresolved
  /\ addedModules = {}
  /\ resolveLock = [holder |-> 0, queue |-> <<>>]
  /\ resolvers = [c \in Resolvers |-> NoResolver]
  /\ attempts = 0


\* No error raised by syncToService.
NoSyncError == [type |-> "none", message |-> <<>>, cause |-> <<>>]

\* No syncToService call made.
NoSync == [pc |-> "idle", postSyncCommand |-> FALSE, attempts |-> <<>>, killed |-> 0,
           error |-> NoSyncError]

SyncIdle ==
  /\ sync = NoSync
  /\ syncCalls = 0


\* The modules of the project autoReloadModules walks, in config order.
ReloadModules == <<"api", "web", "db">>

ReloadNames == {ReloadModules[i] : i \in 1..Len(ReloadModules)}

\* No autoReloadModules call made.
NoReload == [pc |-> "idle", modules |-> <<>>, inputs |-> <<>>, stack |-> <<>>, moduleSet |-> <<>>, result |-> <<>>]

ReloadIdle ==
  /\ buildDependencies = [m \in ReloadNames |-> <<>>]
  /\ serviceDependencies = [m \in ReloadNames |-> <<>>]
  /\ reload = NoReload


\* No tfValidate call made.
NoValidation == [pc |-> "idle", runs |-> <<>>, inits |-> 0, error |-> <<>>]

TerraformIdle ==
  /\ tf = NoValidation
  /\ tfCalls = 0


\* The callers of scanModules.
Scanners == 1..MaxScanners

\* The names modules are declared with.
ModuleKeys == {"a", "b"}

\* A caller that has not called scanModules.
NoScan == [pc |-> "idle", force |-> FALSE, error |-> ""]

\* A new Garden on an empty project: moduleConfigs = {}, modulesScanned = false.
ScanIdle ==
  /\ configsOnDisk = <<>>
  /\ moduleConfigs = [k \in ModuleKeys |-> ""]
  /\ modulesScanned = FALSE
  /\ scanLock = [holder |-> 0, queue |-> <<>>]
  /\ scanners = [c \in Scanners |-> NoScan]

RECURSIVE SeqsUpTo(_, _)
\* The sequences over S of length at most n.
SeqsUpTo(S, n) ==
  IF n = 0 THEN {<<>>}
  ELSE LET shorter == SeqsUpTo(S, n - 1)
       IN shorter \cup {Append(q, x) : q \in shorter, x \in S}

\* A config graph: which services depend on each service (none on itself).
ConfigGraphs ==
  {g \in [ServiceNames -> SUBSET ServiceNames] : \A s \in ServiceNames : s \notin g[s]}

Init ==
  /\ graph \in ConfigGraphs
  /\ includeDependants \in BOOLEAN
  /\ \E names \in SeqsUpTo(ServiceNames, MaxRoots) :
       rootTasks = [i \in 1..Len(names) |-> DeleteServiceTask(names[i], includeDependants, i)]
  /\ opts \in {DefaultOpts} \cup
              {[limited |-> TRUE, concurrencyLimit |-> n] : n \in 1..MaxLimit}
  /\ processOpts = DefaultOpts
  /\ uidCounter = Len(rootTasks)
  /\ phase = "idle"
  /\ worklist = <<>>
  /\ nodes = EmptyMap
  /\ depKeys = EmptyMap
  /\ status = EmptyMap
  /\ results = EmptyMap
  /\ returned = [error |-> "none", cycles |-> {}, results |-> EmptyMap]
  /\ instances = {rootTasks[i] : i \in 1..Len(rootTasks)}
  /\ runs = EmptyMap
  /\ CacheEmpty
  /\ WatchIdle
  /\ VersionIdle
  /\ HashIdle
  /\ NamespacesIdle
  /\ MavenIdle
  /\ GetFilesIdle
  /\ BuildIdle
  /\ ProvidersIdle
  /\ SyncIdle
  /\ ReloadIdle
  /\ TerraformIdle
  /\ ScanIdle

Next ==
  \/ ProcessTasks
  \/ Expand
  \/ Plan
  \/ \E k \in DOMAIN status : Start(k)
  \/ \E k \in DOMAIN status : Complete(k)
  \/ \E k \in DOMAIN status : Fail(k)
  \/ Return

Spec == Init /\ [][Next]_vars

\* The event loop keeps taking its own steps, and every process() that was
\* started ends, by returning or by throwing.
FairSpec ==
  /\ Spec
  /\ WF_vars(ProcessTasks \/ Expand \/ Plan \/ Return)
  /\ WF_vars(\E k \in DOMAIN status : Start(k))
  /\ WF_vars(\E k \in DOMAIN status : Complete(k) \/ Fail(k))

\* ------------------------------------------------------------------------
\* The scoped cache (cache.ts) and the watcher's invalidation (watch.ts)
\* ------------------------------------------------------------------------

RECURSIVE SplitPath(_, _, _, _)
\* The segments of s from position i on, cur being the segment read so far:
\* empty segments (a leading, doubled or trailing separator) are dropped.
SplitPath(s, i, cur, acc) ==
  LET closed == IF cur = "" THEN acc ELSE Append(acc, cur)
  IN IF i > Len(s) THEN closed
     ELSE IF SubSeq(s, i, i) = "/" THEN SplitPath(s, i + 1, "", closed)
     ELSE SplitPath(s, i + 1, cur \o SubSeq(s, i, i), acc)

\* A path as a cache context: its list of segments.
pathToCacheContext(path) == SplitPath(path, 1, "", <<>>)

\* An invalidateUp that does not walk up: only the context itself is cleared.
ContextsAt(context) == {context}

\* The contexts invalidateUp(context) clears: the context and every context
\* above it, up to the root.
ContextsUp(context) == {SubSeq(context, 1, n) : n \in 0..Len(context)}

\* An invalidateDown that does not walk down: only the context itself is cleared.
IsContextAt(context, c) == c = context

\* Whether invalidateDown(context) clears context c: c is the context or lies below it.
IsContextDown(context, c) ==
  Len(c) >= Len(context) /\ SubSeq(c, 1, Len(context)) = context

Missing == "missing"

\* cache.get(key)
CacheGet(c, key) == IF key \in DOMAIN c THEN c[key].value ELSE Missing

\* The cache without the entries under the keys of `drop`: an entry goes as a whole.
Without(c, drop) == [key \in DOMAIN c \ drop |-> c[key]]

\* An invalidate that spares an entry while another of its contexts still stands.
CacheAfterInvalidateSole(c, context) ==
  Without(c, {key \in DOMAIN c : c[key].contexts = {context}})

\* cache.invalidate(context)
CacheAfterInvalidate(c, context) ==
  Without(c, {key \in DOMAIN c : context \in c[key].contexts})

\* An invalidateUp that walks down: it clears what lies at or below the context.
CacheAfterInvalidateUpAsDown(c, context) ==
  Without(c, {key \in DOMAIN c : \E x \in c[key].contexts : IsContextDown(context, x)})

\* cache.invalidateUp(context)
CacheAfterInvalidateUp(c, context) ==
  Without(c, {key \in DOMAIN c : c[key].contexts \cap ContextsUp(context) # {}})

\* cache.invalidateDown(context)
CacheAfterInvalidateDown(c, context) ==
  Without(c, {key \in DOMAIN c : \E x \in c[key].contexts : IsContextDown(context, x)})

\* The paths entries are tagged with.
ContextPaths ==
  {"/proj", "/proj/modA", "/proj/modA/src/x.ts", "/proj/modAB", "/other/modB"}

\* The paths invalidations are asked for.
InvalidatePaths == ContextPaths \cup {"/proj/modA/sub", "/proj/modA/"}

CacheKeys == {"k1", "k2"}

CacheValues == {"v1"}

\* The keys an operation took out of the cache.
Removed(before, after) == DOMAIN before \ DOMAIN after

\* The modules the watcher knows.
Modules ==
  {[name |-> "modA", path |-> "/proj/modA"],
   [name |-> "modAB", path |-> "/proj/modAB"],
   [name |-> "modB", path |-> "/other/modB"]}

\* cache.set(key, value, ...contexts)
CacheSet(key, value, paths) ==
  /\ cache' = [k \in DOMAIN cache \cup {key} |->
                 IF k = key
                   THEN [value |-> value, contexts |-> {pathToCacheContext(q) : q \in paths}]
                   ELSE cache[k]]
  /\ lastOp' = [op |-> "set", path |-> "", removed |-> {}]
  /\ UNCHANGED nonCacheVars

CacheInvalidate(path) ==
  /\ cache' = CacheAfterInvalidate(cache, pathToCacheContext(path))
  /\ lastOp' = [op |-> "invalidate", path |-> path, removed |-> Removed(cache, cache')]
  /\ UNCHANGED nonCacheVars

CacheInvalidateUp(path) ==
  /\ cache' = CacheAfterInvalidateUp(cache, pathToCacheContext(path))
  /\ lastOp' = [op |-> "invalidateUp", path |-> path, removed |-> Removed(cache, cache')]
  /\ UNCHANGED nonCacheVars

CacheInvalidateDown(path) ==
  /\ cache' = CacheAfterInvalidateDown(cache, pathToCacheContext(path))
  /\ lastOp' = [op |-> "invalidateDown", path |-> path, removed |-> Removed(cache, cache')]
  /\ UNCHANGED nonCacheVars

\* FSWatcher.invalidateCached(module): everything attached to the module's path
\* or to a directory above it goes.
invalidateCached(module) == CacheInvalidateUp(module.path)

\* The state of a scheduler that was never asked to process anything.
SchedIdle ==
  /\ graph = [s \in ServiceNames |-> {}]
  /\ includeDependants = FALSE
  /\ rootTasks = <<>>
  /\ opts = DefaultOpts
  /\ processOpts = DefaultOpts
  /\ uidCounter = 0
  /\ phase = "idle"
  /\ worklist = <<>>
  /\ nodes = EmptyMap
  /\ depKeys = EmptyMap
  /\ status = EmptyMap
  /\ results = EmptyMap
  /\ returned = [error |-> "none", cycles |-> {}, results |-> EmptyMap]
  /\ instances = {}
  /\ runs = EmptyMap

CacheInit == SchedIdle /\ CacheEmpty /\ WatchIdle /\ VersionIdle
  /\ HashIdle
  /\ NamespacesIdle
  /\ MavenIdle
  /\ GetFilesIdle
  /\ BuildIdle
  /\ ProvidersIdle
  /\ SyncIdle
  /\ ReloadIdle
  /\ TerraformIdle
  /\ ScanIdle

CacheNext ==
  \/ \E key \in CacheKeys, value \in CacheValues :
       \E paths \in {q \in SUBSET ContextPaths : Cardinality(q) \in 1..MaxContexts} :
         CacheSet(key, value, paths)
  \/ \E path \in InvalidatePaths : CacheInvalidate(path)
  \/ \E path \in InvalidatePaths : CacheInvalidateUp(path)
  \/ \E path \in InvalidatePaths : CacheInvalidateDown(path)
  \/ \E module \in Modules : invalidateCached(module)

CacheSpec == CacheInit /\ [][CacheNext]_vars

\* ------------------------------------------------------------------------
\* The file watcher (watch.ts)
\* ------------------------------------------------------------------------

\* ctx.getModules(): every module of the project; sub is nested in modA, and
\* modB is a module no caller asks to watch.
getModules ==
  <<[name |-> "modA", path |-> "/proj/modA"],
    [name |-> "sub", path |-> "/proj/modA/sub"],
    [name |-> "modAB", path |-> "/proj/modAB"],
    [name |-> "modB", path |-> "/other/modB"]>>

\* The module lists watchModules is called with: some of the project's
\* modules, in any order.
ModuleLists ==
  LET pool == {getModules[i] : i \in 1..Len(getModules)} \ {getModules[Len(getModules)]}
  IN {q \in SeqsUpTo(pool, Cardinality(pool)) :
        /\ q # <<>>
        /\ \A i, j \in 1..Len(q) : q[i] = q[j] => i = j}

\* The files the watcher reports as added, changed or unlinked.
FilePaths ==
  {"/proj/modA/src/x.ts", "/proj/modA/garden.yml", "/proj/.gitignore",
   "/proj/unrelated/.gardenignore", "/proj/unrelated/x.ts", "/proj/modAB/y.ts",
   "/proj/modA/sub/z.ts"}

\* The directories the watcher reports as added or unlinked.
DirPaths ==
  {"/proj", "/proj/mod", "/proj/modA", "/proj/modA/src", "/proj/modA/sub/lib",
   "/proj/modAB/lib", "/proj/unrelated"}

\* The contexts the cache entries of a watched project are tagged with.
WatchTagPaths == {"/proj/modA", "/proj/modA/sub", "/proj/modAB"}

\* path.basename(path)
basename(path) ==
  LET segs == SplitPath(path, 1, "", <<>>)
  IN IF segs = <<>> THEN "" ELSE segs[Len(segs)]

\* s.startsWith(prefix): a comparison of characters.
startsWith(s, prefix) == Len(prefix) <= Len(s) /\ SubSeq(s, 1, Len(prefix)) = prefix

\* `null` where a module is expected.
NoModule == [name |-> "null", path |-> ""]

\* modules.find(m => path.startsWith(m.path)) || null: the first match in list order.
FindModule(ms, path) ==
  LET hits == {i \in 1..Len(ms) : startsWith(path, ms[i].path)}
  IN IF hits = {} THEN NoModule ELSE ms[CHOOSE i \in hits : \A j \in hits : i <= j]

\* The effects a handler's log lists, in the order it made them.
InvalidateUpEffect(module) ==
  [do |-> "invalidateUp", module |-> module.name, configChanged |-> FALSE]

OnChangeEffect(module, configChanged) ==
  [do |-> "onChange", module |-> module.name, configChanged |-> configChanged]

\* changeHandler(module, configChanged), w being what the handler has done so
\* far: the cache it leaves and the log of its effects.
changeHandler(w, module, configChanged) ==
  [w EXCEPT !.log = Append(@, OnChangeEffect(module, configChanged))]

\* this.invalidateCached(module), as a handler calls it.
invalidateCachedIn(w, module) ==
  [cache |-> CacheAfterInvalidateUp(w.cache, pathToCacheContext(module.path)),
   log |-> Append(w.log, InvalidateUpEffect(module))]

\* An invalidateCachedForAll that stops after the first module.
invalidateCachedForFirst(w, ms) ==
  IF ms = <<>> THEN w ELSE invalidateCachedIn(w, Head(ms))

RECURSIVE invalidateCachedForAll(_, _)
\* The loop of invalidateCachedForAll over the modules ctx.getModules() gave.
invalidateCachedForAll(w, ms) ==
  IF ms = <<>> THEN w
  ELSE invalidateCachedForAll(invalidateCachedIn(w, Head(ms)), Tail(ms))

RECURSIVE DirRemovedScan(_, _, _, _)
\* The loop of the directory-removed handler from module i on: whether it met
\* a module whose root starts with dirPath, and else the module it settled on.
DirRemovedScan(ms, i, dirPath, changedModule) ==
  IF i > Len(ms) THEN [structural |-> FALSE, changedModule |-> changedModule]
  ELSE IF startsWith(ms[i].path, dirPath)
    THEN [structural |-> TRUE, changedModule |-> NoModule]
  ELSE IF /\ startsWith(dirPath, ms[i].path)
          /\ (changedModule = NoModule \/ startsWith(ms[i].path, changedModule.path))
    THEN DirRemovedScan(ms, i + 1, dirPath, ms[i])
  ELSE DirRemovedScan(ms, i + 1, dirPath, changedModule)

\* A handler's step ends: the cache and the log are as it left them.
Handled(w, pc, kind, path, hasConfig) ==
  /\ cache' = w.cache
  /\ lastOp' = [op |-> "watch", path |-> path, removed |-> Removed(cache, w.cache)]
  /\ watch' = [pc |-> pc, kind |-> kind, path |-> path, hasConfig |-> hasConfig, log |-> w.log]
  /\ UNCHANGED modules
  /\ UNCHANGED nonWatchVars

\* The handler of add, change and unlink.
FileChanged(filePath) ==
  /\ modules # <<>>
  /\ watch.pc = "idle"
  /\ LET w == [cache |-> cache, log |-> <<>>]
         filename == basename(filePath)
         changedModule == FindModule(modules, filePath)
         invalidated == IF changedModule # NoModule THEN invalidateCachedIn(w, changedModule)
                                                     ELSE w
     IN IF filename \in {"garden.yml", ".gitignore", ".gardenignore"}
          THEN Handled(w, "awaitInvalidate", "file", filePath, FALSE)
          ELSE Handled(changeHandler(invalidated, changedModule, FALSE),
                       "idle", "file", filePath, FALSE)

\* The handler of addDir; hasConfig: the scan of the directory met a file
\* named garden.yml (MODULE_CONFIG_FILENAME) that is not ignored.
DirAdded(dirPath, hasConfig) ==
  /\ modules # <<>>
  /\ watch.pc = "idle"
  /\ LET w == [cache |-> cache, log |-> <<>>]
         configChanged == hasConfig
         changedModule == FindModule(modules, dirPath)
     IN IF configChanged
          THEN Handled(changeHandler(w, NoModule, TRUE), "detached", "addDir", dirPath, hasConfig)
          ELSE IF changedModule # NoModule
            THEN Handled(changeHandler(invalidateCachedIn(w, changedModule), changedModule, FALSE),
                         "idle", "addDir", dirPath, hasConfig)
          ELSE Handled(w, "idle", "addDir", dirPath, hasConfig)

\* The handler of unlinkDir.
DirRemoved(dirPath) ==
  /\ modules # <<>>
  /\ watch.pc = "idle"
  /\ LET w == [cache |-> cache, log |-> <<>>]
         scan == DirRemovedScan(modules, 1, dirPath, NoModule)
         changedModule == scan.changedModule
     IN IF scan.structural
          THEN Handled(w, "awaitInvalidate", "unlinkDir", dirPath, FALSE)
          ELSE IF changedModule # NoModule
            THEN Handled(changeHandler(invalidateCachedIn(w, changedModule), changedModule, FALSE),
                         "idle", "unlinkDir", dirPath, FALSE)
          ELSE Handled(w, "idle", "unlinkDir", dirPath, FALSE)

\* ctx.getModules() has resolved: invalidateCachedForAll runs its loop, and a
\* handler that awaits it is ready to go on.
InvalidateCachedForAllRuns ==
  /\ watch.pc \in {"awaitInvalidate", "detached"}
  /\ Handled(invalidateCachedForAll([cache |-> cache, log |-> watch.log], getModules),
             IF watch.pc = "awaitInvalidate" THEN "resume" ELSE "idle",
             watch.kind, watch.path, watch.hasConfig)

\* The handler goes on after its await: return changeHandler(null, true).
HandlerResumes ==
  /\ watch.pc = "resume"
  /\ Handled(changeHandler([cache |-> cache, log |-> watch.log], NoModule, TRUE),
             "idle", watch.kind, watch.path, watch.hasConfig)

WatchInit ==
  /\ SchedIdle
  /\ CacheEmpty
  /\ modules \in ModuleLists
  /\ watch = NoEvent
  /\ VersionIdle
  /\ HashIdle
  /\ NamespacesIdle
  /\ MavenIdle
  /\ GetFilesIdle
  /\ BuildIdle
  /\ ProvidersIdle
  /\ SyncIdle
  /\ ReloadIdle
  /\ TerraformIdle
  /\ ScanIdle

WatchNext ==
  \/ \E key \in CacheKeys, value \in CacheValues, path \in WatchTagPaths :
       CacheSet(key, value, {path})
  \/ \E filePath \in FilePaths : FileChanged(filePath)
  \/ \E dirPath \in DirPaths, hasConfig \in BOOLEAN : DirAdded(dirPath, hasConfig)
  \/ \E dirPath \in DirPaths : DirRemoved(dirPath)
  \/ InvalidateCachedForAllRuns
  \/ HandlerResumes

WatchSpec == WatchInit /\ [][WatchNext]_vars

\* ------------------------------------------------------------------------
\* Version resolution (Garden.resolveVersion) over the cache and the VCS
\* ------------------------------------------------------------------------

\* The config of the module with the name: resolveModuleConfig, getRawModuleConfigs.
ModuleConfig(name) == CHOOSE m \in Modules : m.name = name

\* The dependency lists resolveVersion is called with for the module: some of
\* the other modules, in any order.
DependencyLists(moduleName) ==
  LET others == {m \in Modules : m.name # moduleName}
  IN {q \in SeqsUpTo(others, Cardinality(others)) : \A i, j \in 1..Len(q) : q[i] = q[j] => i = j}

\* Where Array.prototype.sort puts the name.
Position(name) == CHOOSE i \in 1..Len(ModuleNames) : ModuleNames[i] = name

\* The sorted list of names with one more name put in its place.
InsertName(sorted, name) ==
  LET k == Cardinality({i \in 1..Len(sorted) : Position(sorted[i]) <= Position(name)})
  IN SubSeq(sorted, 1, k) \o <<name>> \o SubSeq(sorted, k + 1, Len(sorted))

\* A sort that leaves the names in the order they came in.
KeepOrder(names) == names

RECURSIVE SortNames(_)
\* depModuleNames.sort()
SortNames(names) ==
  IF names = <<>> THEN <<>> ELSE InsertName(SortNames(Tail(names)), Head(names))

\* moduleDependencies.map((m) => m.name)
NamesOf(moduleDependencies) ==
  [i \in 1..Len(moduleDependencies) |-> moduleDependencies[i].name]

\* ["moduleVersions", moduleName, ...depModuleNames]
VersionCacheKey(moduleName, moduleDependencies) ==
  <<"moduleVersions", moduleName>> \o SortNames(NamesOf(moduleDependencies))

\* getModuleCacheContext(config): the context of the module's path.
getModuleCacheContext(config) == pathToCacheContext(config.path)

\* Contexts that leave the dependencies out.
OwnCacheContext(config, dependencies) == {getModuleCacheContext(config)}

\* dependencies.concat([config]).map((c) => getModuleCacheContext(c))
cacheContexts(config, dependencies) ==
  {getModuleCacheContext(c) : c \in dependencies \cup {config}}

\* vcs.resolveVersion(log, config, dependencies) on working tree t at time now:
\* the version string is made of the revision of the module's files and of
\* those of its dependencies, sorted by name; the timestamp is set when the
\* tree has uncommitted changes to one of them.
vcsResolveVersion(t, now, config, dependencies) ==
  LET names == SortNames(NamesOf(dependencies))
  IN [versionString |->
        <<[name |-> config.name, rev |-> t[config.name].rev]>> \o
          [i \in 1..Len(names) |-> [name |-> names[i], rev |-> t[names[i]].rev]],
      dirtyTimestamp |->
        IF t[config.name].dirty \/ \E i \in 1..Len(names) : t[names[i]].dirty
          THEN now ELSE NullTimestamp]

\* Where a resolveVersion call is when it is over: it returned or it raised.
CallEnded == {"idle", "done", "raised"}

\* resolveVersion(moduleName, moduleDependencies, force) up to its first await:
\* a cached version is returned as it is.
ResolveVersion(moduleName, moduleDependencies, force) ==
  /\ call.pc \in CallEnded
  /\ LET cacheKey == VersionCacheKey(moduleName, moduleDependencies)
         started == [pc |-> "awaitVcs", moduleName |-> moduleName,
                     moduleDependencies |-> moduleDependencies, force |-> force,
                     cacheKey |-> cacheKey, version |-> NoVersion, calledVcs |-> FALSE]
     IN IF ~force /\ cacheKey \in DOMAIN cache
          THEN call' = [started EXCEPT !.pc = "done", !.version = CacheGet(cache, cacheKey)]
          ELSE vcsCalls < MaxVcsCalls /\ call' = started
  /\ UNCHANGED <<tree, vcsCalls, cacheVars>>
  /\ UNCHANGED nonVersionVars

\* The configs are resolved and the VCS has read the working tree.
VcsResolves ==
  /\ call.pc = "awaitVcs"
  /\ LET config == ModuleConfig(call.moduleName)
         dependencies == [i \in 1..Len(call.moduleDependencies) |->
                            ModuleConfig(call.moduleDependencies[i].name)]
     IN call' = [call EXCEPT !.pc = "awaitSet", !.calledVcs = TRUE,
                             !.version = vcsResolveVersion(tree, vcsCalls + 1, config, dependencies)]
  /\ vcsCalls' = vcsCalls + 1
  /\ UNCHANGED <<tree, cacheVars>>
  /\ UNCHANGED nonVersionVars

\* A rejection that is put in the cache as if it were a version.
VcsRaisesAndCaches ==
  /\ call.pc = "awaitVcs"
  /\ call' = [call EXCEPT !.pc = "raised", !.calledVcs = TRUE]
  /\ vcsCalls' = vcsCalls + 1
  /\ cache' = [k \in DOMAIN cache \cup {call.cacheKey} |->
                 IF k = call.cacheKey THEN [value |-> NoVersion, contexts |-> {}] ELSE cache[k]]
  /\ lastOp' = [op |-> "set", path |-> "", removed |-> {}]
  /\ UNCHANGED tree
  /\ UNCHANGED nonVersionVars

\* The VCS raises (getRepoRoot: the path is not in a git repository, or git
\* failed otherwise): the await rejects, and resolveVersion, which has no
\* handler, rejects with the same error before it reaches cache.set.
VcsRaises ==
  /\ call.pc = "awaitVcs"
  /\ call' = [call EXCEPT !.pc = "raised", !.calledVcs = TRUE]
  /\ vcsCalls' = vcsCalls + 1
  /\ UNCHANGED <<tree, cacheVars>>
  /\ UNCHANGED nonVersionVars

\* resolveVersion goes on after its last await: this.cache.set(cacheKey,
\* version, ...cacheContexts); return version.
VersionCached ==
  /\ call.pc = "awaitSet"
  /\ LET config == ModuleConfig(call.moduleName)
         dependencies == {ModuleConfig(call.moduleDependencies[i].name) :
                            i \in 1..Len(call.moduleDependencies)}
     IN cache' = [k \in DOMAIN cache \cup {call.cacheKey} |->
                    IF k = call.cacheKey
                      THEN [value |-> call.version, contexts |-> cacheContexts(config, dependencies)]
                      ELSE cache[k]]
  /\ lastOp' = [op |-> "set", path |-> "", removed |-> {}]
  /\ call' = [call EXCEPT !.pc = "done"]
  /\ UNCHANGED <<tree, vcsCalls>>
  /\ UNCHANGED nonVersionVars

\* A file of the module is changed in the working tree.
Edit(name) ==
  /\ tree[name].rev < MaxRev
  /\ tree' = [tree EXCEPT ![name] = [rev |-> @.rev + 1, dirty |-> TRUE, unseen |-> TRUE]]
  /\ UNCHANGED <<vcsCalls, call, cacheVars>>
  /\ UNCHANGED nonVersionVars

\* The module's changes are committed.
Commit(name) ==
  /\ tree[name].dirty
  /\ tree' = [tree EXCEPT ![name].dirty = FALSE]
  /\ UNCHANGED <<vcsCalls, call, cacheVars>>
  /\ UNCHANGED nonVersionVars

\* The watcher handles the change of the module's files: its file handler
\* calls this.invalidateCached(module).
WatcherInvalidates(module) ==
  /\ tree[module.name].unseen
  /\ tree' = [tree EXCEPT ![module.name].unseen = FALSE]
  /\ cache' = CacheAfterInvalidateUp(cache, pathToCacheContext(module.path))
  /\ lastOp' = [op |-> "invalidateUp", path |-> module.path, removed |-> Removed(cache, cache')]
  /\ UNCHANGED <<vcsCalls, call>>
  /\ UNCHANGED nonVersionVars

\* The module whose version is asked for, and the modules whose files change.
ResolvedModules == {m \in Modules : m.name = "modA"}

EditedModules == {m \in Modules : m.name = "modA"}

\* The paths below and above module roots that invalidateUp is asked for.
VersionInvalidatePaths == {"/proj/modA/src/x.ts", "/proj"}

VersionInit == SchedIdle /\ CacheEmpty /\ WatchIdle /\ VersionIdle
  /\ HashIdle
  /\ NamespacesIdle
  /\ MavenIdle
  /\ GetFilesIdle
  /\ BuildIdle
  /\ ProvidersIdle
  /\ SyncIdle
  /\ ReloadIdle
  /\ TerraformIdle
  /\ ScanIdle

VersionNext ==
  \/ \E module \in ResolvedModules, force \in BOOLEAN :
       \E moduleDependencies \in DependencyLists(module.name) :
         ResolveVersion(module.name, moduleDependencies, force)
  \/ VcsResolves
  \/ VcsRaises
  \/ VersionCached
  \/ \E module \in EditedModules : Edit(module.name)
  \/ \E module \in EditedModules : Commit(module.name)
  \/ \E module \in EditedModules : WatcherInvalidates(module)
  \/ \E module \in Modules : invalidateCached(module)
  \/ \E path \in VersionInvalidatePaths : CacheInvalidateUp(path)

VersionSpec == VersionInit /\ [][VersionNext]_vars


\* ------------------------------------------------------------------------
\* The version string (vcs.resolveVersion) of a file list and dependency versions
\* ------------------------------------------------------------------------

\* The paths of a module's files relative to the module root, in sort order.
RelativePaths == <<"a.ts", "b.ts", "lib/a.ts">>

\* Content hashes, and the version strings dependencies have.
ContentHashes == {"h1", "h2"}

DependencyVersionStrings == {"v1", "v2"}

\* The file lists getFiles may return: no path twice, in any order.
FileLists ==
  LET VcsFiles == {[path |-> RelativePaths[i], hash |-> h] :
                     i \in 1..Len(RelativePaths), h \in ContentHashes}
  IN {q \in SeqsUpTo(VcsFiles, MaxFiles) : \A i, j \in 1..Len(q) : q[i].path = q[j].path => i = j}

\* The dependency versions as they are collected, in the order of the
\* caller's dependency list: no name twice.
DependencyVersionLists ==
  LET Versions == {[name |-> m.name, versionString |-> v] :
                     m \in {x \in Modules : x.name # "modA"}, v \in DependencyVersionStrings}
  IN {q \in SeqsUpTo(Versions, 2) : \A i, j \in 1..Len(q) : q[i].name = q[j].name => i = j}

\* Where a sort by path puts the path.
PathPosition(path) == CHOOSE i \in 1..Len(RelativePaths) : RelativePaths[i] = path

\* The sorted file list with one more file put in its place.
InsertFile(sorted, f) ==
  LET k == Cardinality({i \in 1..Len(sorted) : PathPosition(sorted[i].path) <= PathPosition(f.path)})
  IN SubSeq(sorted, 1, k) \o <<f>> \o SubSeq(sorted, k + 1, Len(sorted))

\* A sort that leaves the files in the order they were listed in.
KeepFileOrder(fs) == fs

RECURSIVE SortFiles(_)
\* The file list sorted by path.
SortFiles(fs) ==
  IF fs = <<>> THEN <<>> ELSE InsertFile(SortFiles(Tail(fs)), Head(fs))

\* The sorted dependency versions with one more put in its place.
InsertDependencyVersion(sorted, d) ==
  LET k == Cardinality({i \in 1..Len(sorted) : Position(sorted[i].name) <= Position(d.name)})
  IN SubSeq(sorted, 1, k) \o <<d>> \o SubSeq(sorted, k + 1, Len(sorted))

RECURSIVE SortDependencyVersions(_)
\* The dependency versions sorted by name.
SortDependencyVersions(ds) ==
  IF ds = <<>> THEN <<>>
  ELSE InsertDependencyVersion(SortDependencyVersions(Tail(ds)), Head(ds))

\* The digest of a list of strings: the list itself stands for its digest,
\* which is equal for equal lists and (collisions aside) for no others.
hashStrings(strings) == <<"v", strings>>

\* The version string: the hash of the sorted (path, hash) pairs followed by
\* the sorted dependency versions.
getVersionString(fs, ds) ==
  LET sortedFiles == SortFiles(fs)
      sortedDependencies == SortDependencyVersions(ds)
  IN hashStrings([i \in 1..Len(sortedFiles) |-> <<sortedFiles[i].path, sortedFiles[i].hash>>] \o
                 [i \in 1..Len(sortedDependencies) |->
                    <<sortedDependencies[i].name, sortedDependencies[i].versionString>>])

\* The orders a list can come in.
Reorderings(q) ==
  {p \in [1..Len(q) -> {q[i] : i \in 1..Len(q)}] : \A i, j \in 1..Len(q) : p[i] = p[j] => i = j}

\* The VCS lists the same files again, in another order.
ListFiles(listing) ==
  /\ listing # files
  /\ files' = listing
  /\ UNCHANGED <<dependencyVersions, hashed>>
  /\ UNCHANGED nonHashVars

\* The caller names the same dependencies in another order.
ListDependencies(listing) ==
  /\ listing # dependencyVersions
  /\ dependencyVersions' = listing
  /\ UNCHANGED <<files, hashed>>
  /\ UNCHANGED nonHashVars

\* The version string of the module is computed.
HashVersion ==
  /\ hashed' = [files |-> files, dependencyVersions |-> dependencyVersions,
                versionString |-> getVersionString(files, dependencyVersions)]
  /\ UNCHANGED <<files, dependencyVersions>>
  /\ UNCHANGED nonHashVars

HashInit ==
  /\ SchedIdle
  /\ CacheEmpty
  /\ WatchIdle
  /\ VersionIdle
  /\ files \in FileLists
  /\ dependencyVersions \in DependencyVersionLists
  /\ hashed = NoHash
  /\ NamespacesIdle
  /\ MavenIdle
  /\ GetFilesIdle
  /\ BuildIdle
  /\ ProvidersIdle
  /\ SyncIdle
  /\ ReloadIdle
  /\ TerraformIdle
  /\ ScanIdle

HashNext ==
  \/ \E listing \in Reorderings(files) : ListFiles(listing)
  \/ \E listing \in Reorderings(dependencyVersions) : ListDependencies(listing)
  \/ HashVersion

HashSpec == HashInit /\ [][HashNext]_vars


\* ------------------------------------------------------------------------
\* ensureNamespace (plugins/kubernetes/local/local.ts)
\* ------------------------------------------------------------------------

\* A test that takes a namespace that is being created for one to create.
IsNotCreated(state) == state # "created"

\* !created[namespace]: the namespace has no entry.
HasNoEntry(state) == state = "none"

\* The caller's last call, if it made one, is over.
CallerEnded == {"idle", "returned", "raised", "deleted", "deleteRaised"}

\* ensureNamespace(api, namespace) up to its first await: a caller that finds
\* an entry, "pending" or "created", returns at once.
EnsureNamespace(c, namespace) ==
  /\ callers[c].pc \in CallerEnded
  /\ IF HasNoEntry(created[namespace])
       THEN /\ created' = [created EXCEPT ![namespace] = "pending"]
            /\ callers' = [callers EXCEPT ![c] = [pc |-> "awaitList", namespace |-> namespace]]
       ELSE /\ callers' = [callers EXCEPT ![c] = [pc |-> "returned", namespace |-> namespace]]
            /\ UNCHANGED created
  /\ UNCHANGED <<cluster, createCalls>>
  /\ UNCHANGED nonNamespaceVars

\* listNamespace has returned: every Active namespace is marked created, and
\* createNamespace is called unless the caller's namespace is among them.
NamespacesListed(c) ==
  /\ callers[c].pc = "awaitList"
  /\ LET marked == [n \in Namespaces |-> IF cluster[n] = "Active" THEN "created" ELSE created[n]]
         namespace == callers[c].namespace
     IN /\ created' = marked
        /\ IF marked[namespace] # "created"
             THEN /\ callers' = [callers EXCEPT ![c].pc = "awaitCreate"]
                  /\ createCalls' = [createCalls EXCEPT ![namespace] = @ + 1]
             ELSE /\ callers' = [callers EXCEPT ![c].pc = "returned"]
                  /\ UNCHANGED createCalls
  /\ UNCHANGED cluster
  /\ UNCHANGED nonNamespaceVars

\* createNamespace has returned: the cluster has the namespace.
NamespaceCreated(c) ==
  /\ callers[c].pc = "awaitCreate"
  /\ cluster[callers[c].namespace] = "absent"
  /\ cluster' = [cluster EXCEPT ![callers[c].namespace] = "Active"]
  /\ created' = [created EXCEPT ![callers[c].namespace] = "created"]
  /\ callers' = [callers EXCEPT ![c].pc = "returned"]
  /\ UNCHANGED createCalls
  /\ UNCHANGED nonNamespaceVars

\* createNamespace is rejected (the name is taken by a namespace that is
\* terminating, or the API failed): ensureNamespace rejects, and the entry
\* stays "pending".
CreateNamespaceRaises(c) ==
  /\ callers[c].pc = "awaitCreate"
  /\ callers' = [callers EXCEPT ![c].pc = "raised"]
  /\ UNCHANGED <<created, cluster, createCalls>>
  /\ UNCHANGED nonNamespaceVars

\* listNamespace is rejected: ensureNamespace rejects, and the entry stays
\* "pending".
ListNamespaceRaises(c) ==
  /\ callers[c].pc = "awaitList"
  /\ callers' = [callers EXCEPT ![c].pc = "raised"]
  /\ UNCHANGED <<created, cluster, createCalls>>
  /\ UNCHANGED nonNamespaceVars

\* deleteNamespaces([namespace], api) up to its first await.
DeleteNamespaces(c, namespace) ==
  /\ callers[c].pc \in CallerEnded
  /\ callers' = [callers EXCEPT ![c] = [pc |-> "awaitDelete", namespace |-> namespace]]
  /\ UNCHANGED <<created, cluster, createCalls>>
  /\ UNCHANGED nonNamespaceVars

\* api.core.deleteNamespace has settled: the namespace is terminating, or
\* there was none (the 404 is ignored), and the wait for it to go starts; or
\* the call was rejected with another error, which is thrown.
DeleteNamespaceSettles(c, ok) ==
  /\ callers[c].pc = "awaitDelete"
  /\ IF ok
       THEN /\ callers' = [callers EXCEPT ![c].pc = "awaitGone"]
            /\ cluster' = [cluster EXCEPT ![callers[c].namespace] =
                             IF @ = "absent" THEN "absent" ELSE "Terminating"]
       ELSE /\ callers' = [callers EXCEPT ![c].pc = "deleteRaised"]
            /\ UNCHANGED cluster
  /\ UNCHANGED <<created, createCalls>>
  /\ UNCHANGED nonNamespaceVars

\* The cluster has finished terminating a namespace.
NamespaceTerminated(namespace) ==
  /\ cluster[namespace] = "Terminating"
  /\ cluster' = [cluster EXCEPT ![namespace] = "absent"]
  /\ UNCHANGED <<created, callers, createCalls>>
  /\ UNCHANGED nonNamespaceVars

\* A round of the wait loop: getAllNamespaces no longer lists the namespace
\* and deleteNamespaces returns, or the time is up and it throws.
DeleteNamespacesEnds(c, timedOut) ==
  /\ callers[c].pc = "awaitGone"
  /\ IF cluster[callers[c].namespace] = "absent"
       THEN ~timedOut /\ callers' = [callers EXCEPT ![c].pc = "deleted"]
       ELSE timedOut /\ callers' = [callers EXCEPT ![c].pc = "deleteRaised"]
  /\ UNCHANGED <<created, cluster, createCalls>>
  /\ UNCHANGED nonNamespaceVars

NamespaceInit ==
  /\ SchedIdle
  /\ CacheEmpty
  /\ WatchIdle
  /\ VersionIdle
  /\ HashIdle
  /\ created = [n \in Namespaces |-> "none"]
  /\ cluster \in [Namespaces -> {"absent", "Active", "Terminating"}]
  /\ callers = [c \in Callers |-> [pc |-> "idle", namespace |-> ""]]
  /\ createCalls = [n \in Namespaces |-> 0]
  /\ MavenIdle
  /\ GetFilesIdle
  /\ BuildIdle
  /\ ProvidersIdle
  /\ SyncIdle
  /\ ReloadIdle
  /\ TerraformIdle
  /\ ScanIdle

NamespaceNext ==
  \/ \E c \in Callers, namespace \in Namespaces : EnsureNamespace(c, namespace)
  \/ \E c \in Callers : NamespacesListed(c)
  \/ \E c \in Callers : NamespaceCreated(c)
  \/ \E c \in Callers : CreateNamespaceRaises(c)
  \/ \E c \in Callers : ListNamespaceRaises(c)
  \/ \E c \in Callers, namespace \in Namespaces : DeleteNamespaces(c, namespace)
  \/ \E c \in Callers, ok \in BOOLEAN : DeleteNamespaceSettles(c, ok)
  \/ \E namespace \in Namespaces : NamespaceTerminated(namespace)
  \/ \E c \in Callers, timedOut \in BOOLEAN : DeleteNamespacesEnds(c, timedOut)

NamespaceSpec == NamespaceInit /\ [][NamespaceNext]_vars


\* ------------------------------------------------------------------------
\* The maven-container build (plugins/maven-container/maven-container.ts)
\* ------------------------------------------------------------------------

\* A lock that anybody may take at any time.
LockIsAlwaysFree(lock) == TRUE

\* buildLock.acquire("mvn", ...) runs its function at once when nobody holds
\* the key, and queues it otherwise.
LockIsFree(lock) == lock.holder = 0

\* The lock after its holder's function has settled: the first of the queue
\* is the next holder.
Released(lock) ==
  IF lock.queue = <<>> THEN [holder |-> 0, queue |-> <<>>]
  ELSE [holder |-> Head(lock.queue), queue |-> Tail(lock.queue)]

\* The builds after the lock is released: the next holder starts its mvn.
Granted(bs, lock) ==
  [b \in Builds |-> IF lock.queue # <<>> /\ b = Head(lock.queue) THEN "mvn" ELSE bs[b]]

\* build(params) is called: it loads the pom and looks for the JDK.
Build(b) ==
  /\ builds[b] \in {"idle", "done", "raised"}
  /\ builds' = [builds EXCEPT ![b] = "preparing"]
  /\ UNCHANGED buildLock
  /\ UNCHANGED nonMavenVars

\* The pom has no artifact id: build raises before it asks for the lock.
PrepareRaises(b) ==
  /\ builds[b] = "preparing"
  /\ builds' = [builds EXCEPT ![b] = "raised"]
  /\ UNCHANGED buildLock
  /\ UNCHANGED nonMavenVars

\* await buildLock.acquire("mvn", async () => { await maven.exec(...) })
AcquireMvn(b) ==
  /\ builds[b] = "preparing"
  /\ IF LockIsFree(buildLock)
       THEN /\ builds' = [builds EXCEPT ![b] = "mvn"]
            /\ buildLock' = [buildLock EXCEPT !.holder = b]
       ELSE /\ builds' = [builds EXCEPT ![b] = "waiting"]
            /\ buildLock' = [buildLock EXCEPT !.queue = Append(@, b)]
  /\ UNCHANGED nonMavenVars

\* maven.exec has settled: the lock is released, and the build goes on to
\* copy the artifact (mvn succeeded) or raises (mvn failed).
MvnSettles(b, ok) ==
  /\ builds[b] = "mvn"
  /\ builds' = [Granted(builds, buildLock) EXCEPT ![b] = IF ok THEN "copying" ELSE "raised"]
  /\ buildLock' = Released(buildLock)
  /\ UNCHANGED nonMavenVars

\* The artifact is copied and the container build has run, or the artifact
\* was not found.
BuildSettles(b, ok) ==
  /\ builds[b] = "copying"
  /\ builds' = [builds EXCEPT ![b] = IF ok THEN "done" ELSE "raised"]
  /\ UNCHANGED buildLock
  /\ UNCHANGED nonMavenVars

MavenInit ==
  /\ SchedIdle
  /\ CacheEmpty
  /\ WatchIdle
  /\ VersionIdle
  /\ HashIdle
  /\ NamespacesIdle
  /\ MavenIdle
  /\ GetFilesIdle
  /\ BuildIdle
  /\ ProvidersIdle
  /\ SyncIdle
  /\ ReloadIdle
  /\ TerraformIdle
  /\ ScanIdle

MavenNext ==
  \/ \E b \in Builds : Build(b)
  \/ \E b \in Builds : PrepareRaises(b)
  \/ \E b \in Builds : AcquireMvn(b)
  \/ \E b \in Builds, ok \in BOOLEAN : MvnSettles(b, ok)
  \/ \E b \in Builds, ok \in BOOLEAN : BuildSettles(b, ok)

MavenSpec == MavenInit /\ [][MavenNext]_vars


\* ------------------------------------------------------------------------
\* The fresh hashes of GitHandler.getFiles (vcs/git.ts)
\* ------------------------------------------------------------------------

\* What is at a listed path when it is hashed: a file, a directory (the path
\* is a symlink to one), nothing (the file is gone), or something that may
\* not be read.
DiskStates == {"file", "directory", "gone", "denied"}

\* The lists of files ls-files may have produced: the hash is that of the
\* index, "" for an untracked file.
ListedFiles ==
  UNION {[1..n -> [path : {"x"}, hash : {"", "h1"}, modified : BOOLEAN, disk : DiskStates]] :
           n \in 0..MaxFiles}

\* The paths of the listed files, by their place in the list.
Listed(q) == [i \in 1..Len(q) |-> [q[i] EXCEPT !.path = RelativePaths[i]]]

\* The error stat(resolvedPath) rejects with, "none" if it resolves.
StatError(disk) ==
  IF disk = "gone" THEN "ENOENT" ELSE IF disk = "denied" THEN "EACCES" ELSE "none"

\* The catch block lets go of an error with exit code 128 or code ENOENT.
IsFileGone(err) == err = "exit128" \/ err = "ENOENT"

\* hashObject(resolvedPath) of a file that can be read: the hash of what is
\* on disk, which is the index's unless the file was modified or is untracked.
hashObject(f) == IF f.hash # "" /\ ~f.modified THEN f.hash ELSE "h2"

\* The file needs a fresh hash: !f.hash || modified.has(resolvedPath)
NeedsFreshHash(f) == f.hash = "" \/ f.modified

\* A file the mapper has not returned yet.
Todo == [path |-> "", hash |-> "", state |-> "todo"]

\* What the mapper makes of the file: it throws, or returns the file with
\* its hash.
FreshHash(f) ==
  IF NeedsFreshHash(f)
    THEN IF StatError(f.disk) # "none"
           THEN IF IsFileGone(StatError(f.disk))
                  THEN [path |-> f.path, hash |-> "", state |-> "mapped"]
                  ELSE [path |-> f.path, hash |-> "", state |-> "raised"]
           ELSE IF f.disk = "directory" THEN [path |-> f.path, hash |-> "", state |-> "mapped"]
           ELSE [path |-> f.path, hash |-> hashObject(f), state |-> "mapped"]
    ELSE [path |-> f.path, hash |-> f.hash, state |-> "mapped"]

\* A filter that lets every file through.
KeepsAll(f) == TRUE

\* .filter((f) => f.hash !== "")
HasHash(f) == f.hash # ""

RECURSIVE FilterFiles(_)
FilterFiles(fs) ==
  IF fs = <<>> THEN <<>>
  ELSE (IF HasHash(Head(fs)) THEN <<[path |-> Head(fs).path, hash |-> Head(fs).hash]>> ELSE <<>>)
         \o FilterFiles(Tail(fs))

\* The mapper has run for one of the files: Bluebird.map rejects with the
\* first error thrown.
HashFile(i) ==
  /\ getFilesResult.status = "pending"
  /\ freshHashes[i] = Todo
  /\ LET mapped == FreshHash(withSubmodules[i])
     IN IF mapped.state = "raised"
          THEN /\ getFilesResult' = [status |-> "raised", files |-> <<>>]
               /\ UNCHANGED freshHashes
          ELSE /\ freshHashes' = [freshHashes EXCEPT ![i] = mapped]
               /\ UNCHANGED getFilesResult
  /\ UNCHANGED withSubmodules
  /\ UNCHANGED nonGetFilesVars

\* Every mapper has returned: the files without a hash are filtered out.
GetFilesReturns ==
  /\ getFilesResult.status = "pending"
  /\ \A i \in 1..Len(freshHashes) : freshHashes[i] # Todo
  /\ getFilesResult' = [status |-> "returned", files |-> FilterFiles(freshHashes)]
  /\ UNCHANGED <<withSubmodules, freshHashes>>
  /\ UNCHANGED nonGetFilesVars

GetFilesInit ==
  /\ SchedIdle
  /\ CacheEmpty
  /\ WatchIdle
  /\ VersionIdle
  /\ HashIdle
  /\ NamespacesIdle
  /\ MavenIdle
  /\ \E q \in ListedFiles :
       /\ withSubmodules = Listed(q)
       /\ freshHashes = [i \in 1..Len(q) |-> Todo]
  /\ getFilesResult = NoFiles
  /\ BuildIdle
  /\ ProvidersIdle
  /\ SyncIdle
  /\ ReloadIdle
  /\ TerraformIdle
  /\ ScanIdle

GetFilesNext ==
  \/ \E i \in 1..Len(withSubmodules) : HashFile(i)
  \/ GetFilesReturns

GetFilesSpec == GetFilesInit /\ [][GetFilesNext]_vars


\* ------------------------------------------------------------------------
\* Build status and build of exec and generic modules (plugins/exec.ts,
\* plugins/generic.ts)
\* ------------------------------------------------------------------------

\* The version strings a module goes through: its files may change back to
\* what they were.
VersionStrings == 1..MaxVersion

\* The plugins with a version file.
BuildPlugins == {"exec", "generic"}

\* A status that looks at the file only.
IsRecorded(file, versionString) == file.readable

\* builtVersion && builtVersion.versionString === module.version.versionString;
\* builtVersion is null when the file cannot be read.
IsReady(file, versionString) == file.readable /\ file.versionString = versionString

\* The files of the module change: it has another version string.
ChangeVersion(v) ==
  /\ v # moduleVersion
  /\ moduleVersion' = v
  /\ UNCHANGED <<versionFile, buildCall, buildStatus>>
  /\ UNCHANGED nonBuildVars

\* getExecModuleBuildStatus, getGenericModuleBuildStatus
GetBuildStatus ==
  /\ buildStatus' = [asked |-> TRUE, ready |-> IsReady(versionFile, moduleVersion),
                     version |-> moduleVersion]
  /\ UNCHANGED <<moduleVersion, versionFile, buildCall>>
  /\ UNCHANGED nonBuildVars

\* buildExecModule, buildGenericModule up to the first await: the command is
\* run if there is one. The exec module carries its version (module.version).
BuildModule(plugin, hasCommand) ==
  /\ buildCall.pc \in {"idle", "done", "raised"}
  /\ buildCall' = [pc |-> IF hasCommand THEN "command" ELSE "write", plugin |-> plugin,
                   version |-> moduleVersion, hasCommand |-> hasCommand, exit |-> "none"]
  /\ UNCHANGED <<moduleVersion, versionFile, buildStatus>>
  /\ UNCHANGED nonBuildVars

\* The build command has exited: a failure rejects the await and the handler
\* with it. The generic module asks for its version now (module.getVersion()).
CommandExits(ok) ==
  /\ buildCall.pc = "command"
  /\ buildCall' = IF ok
                    THEN [buildCall EXCEPT !.pc = "write", !.exit = "ok",
                                           !.version = IF buildCall.plugin = "generic"
                                                         THEN moduleVersion ELSE @]
                    ELSE [buildCall EXCEPT !.pc = "raised", !.exit = "failed"]
  /\ UNCHANGED <<moduleVersion, versionFile, buildStatus>>
  /\ UNCHANGED nonBuildVars

\* writeModuleVersionFile(buildVersionFilePath, version)
WriteVersionFile ==
  /\ buildCall.pc = "write"
  /\ versionFile' = [readable |-> TRUE, versionString |-> buildCall.version]
  /\ buildCall' = [buildCall EXCEPT !.pc = "done"]
  /\ UNCHANGED <<moduleVersion, buildStatus>>
  /\ UNCHANGED nonBuildVars

BuildInit ==
  /\ SchedIdle
  /\ CacheEmpty
  /\ WatchIdle
  /\ VersionIdle
  /\ HashIdle
  /\ NamespacesIdle
  /\ MavenIdle
  /\ GetFilesIdle
  /\ BuildIdle
  /\ ProvidersIdle
  /\ SyncIdle
  /\ ReloadIdle
  /\ TerraformIdle
  /\ ScanIdle

BuildNext ==
  \/ \E v \in VersionStrings : ChangeVersion(v)
  \/ GetBuildStatus
  \/ \E plugin \in BuildPlugins, hasCommand \in BOOLEAN : BuildModule(plugin, hasCommand)
  \/ \E ok \in BOOLEAN : CommandExits(ok)
  \/ WriteVersionFile

BuildSpec == BuildInit /\ [][BuildNext]_vars


\* ------------------------------------------------------------------------
\* Garden.resolveProviders (garden.ts)
\* ------------------------------------------------------------------------

\* A check that lets a forced call resolve the providers again.
SkipsUnlessForced(resolved, forceInit) == resolved.set /\ ~forceInit

\* if (this.resolvedProviders) { return }: forceInit is not looked at.
SkipsResolving(resolved, forceInit) == resolved.set

\* A filter that finds no failed result.
NoneFailed(taskResults) == {}

\* Object.values(taskResults).filter((r) => r && r.error)
failed(taskResults) == {p \in DOMAIN taskResults : taskResults[p].error}

\* The calls after the lock is released: the function of the first caller
\* in the queue starts.
GrantedResolvers(rs, lock) ==
  [c \in Resolvers |-> IF lock.queue # <<>> /\ c = Head(lock.queue)
                         THEN [rs[c] EXCEPT !.pc = "locked"] ELSE rs[c]]

\* The function passed to acquire has settled for caller c, which goes on
\* at pc: the lock is released.
LockedFunctionSettles(c, pc) ==
  /\ resolveLock' = Released(resolveLock)
  /\ resolvers' = [GrantedResolvers(resolvers, resolveLock) EXCEPT ![c].pc = pc]

\* resolveProviders(forceInit): await this.asyncLock.acquire("resolve-providers", ...)
ResolveProviders(c, forceInit) ==
  /\ resolvers[c].pc \in {"idle", "returned", "raised"}
  /\ LET started == [NoResolver EXCEPT !.forceInit = forceInit]
     IN IF LockIsFree(resolveLock)
          THEN /\ resolvers' = [resolvers EXCEPT ![c] = [started EXCEPT !.pc = "locked"]]
               /\ resolveLock' = [resolveLock EXCEPT !.holder = c]
          ELSE /\ resolvers' = [resolvers EXCEPT ![c] = [started EXCEPT !.pc = "waiting", !.waited = TRUE]]
               /\ resolveLock' = [resolveLock EXCEPT !.queue = Append(@, c)]
  /\ UNCHANGED <<pluginDeps, resolvedProviders, addedModules, attempts>>
  /\ UNCHANGED nonProviderVars

\* The locked function up to processTasks: it returns if the providers are
\* resolved, raises on a cycle, and hands the provider tasks to processTasks
\* otherwise.
DetectCycles(c) ==
  /\ resolvers[c].pc = "locked"
  /\ IF SkipsResolving(resolvedProviders, resolvers[c].forceInit)
       THEN /\ LockedFunctionSettles(c, "return")
            /\ UNCHANGED attempts
       ELSE IF detectCycles(pluginDeps) # {}
         THEN /\ LockedFunctionSettles(c, "raised")
              /\ UNCHANGED attempts
         ELSE /\ attempts < MaxAttempts
              /\ resolvers' = [resolvers EXCEPT ![c].pc = "tasks"]
              /\ attempts' = attempts + 1
              /\ UNCHANGED resolveLock
  /\ UNCHANGED <<pluginDeps, resolvedProviders, addedModules>>
  /\ UNCHANGED nonProviderVars

\* processTasks has returned the task results: the call raises if one of
\* them has an error.
TasksProcessed(c, taskResults) ==
  /\ resolvers[c].pc = "tasks"
  /\ IF failed(taskResults) # {}
       THEN /\ resolveLock' = Released(resolveLock)
            /\ resolvers' = [GrantedResolvers(resolvers, resolveLock) EXCEPT
                               ![c].pc = "raised", ![c].taskResults = taskResults]
       ELSE /\ resolvers' = [resolvers EXCEPT ![c].pc = "adding", ![c].taskResults = taskResults]
            /\ UNCHANGED resolveLock
  /\ UNCHANGED <<pluginDeps, resolvedProviders, addedModules, attempts>>
  /\ UNCHANGED nonProviderVars

\* The module configs of the providers are added and resolvedProviders is
\* set to the list made of the task results.
ProvidersResolved(c) ==
  /\ resolvers[c].pc = "adding"
  /\ addedModules' = addedModules \cup Providers
  /\ resolvedProviders' = [set |-> TRUE, providers |-> attempts]
  /\ LockedFunctionSettles(c, "return")
  /\ UNCHANGED <<pluginDeps, attempts>>
  /\ UNCHANGED nonProviderVars

\* addModule throws (a provider's module has the name of another module):
\* the call raises before resolvedProviders is set.
AddModuleRaises(c) ==
  /\ resolvers[c].pc = "adding"
  /\ LockedFunctionSettles(c, "raised")
  /\ UNCHANGED <<pluginDeps, resolvedProviders, addedModules, attempts>>
  /\ UNCHANGED nonProviderVars

\* return this.resolvedProviders
ProvidersReturned(c) ==
  /\ resolvers[c].pc = "return"
  /\ resolvers' = [resolvers EXCEPT ![c].pc = "returned", ![c].result = resolvedProviders]
  /\ UNCHANGED <<pluginDeps, resolvedProviders, addedModules, resolveLock, attempts>>
  /\ UNCHANGED nonProviderVars

ProviderInit ==
  /\ SchedIdle
  /\ CacheEmpty
  /\ WatchIdle
  /\ VersionIdle
  /\ HashIdle
  /\ NamespacesIdle
  /\ MavenIdle
  /\ GetFilesIdle
  /\ BuildIdle
  /\ pluginDeps \in [Providers -> SUBSET Providers]
  /\ resolvedProviders = Unresolved
  /\ addedModules = {}
  /\ resolveLock = [holder |-> 0, queue |-> <<>>]
  /\ resolvers = [c \in Resolvers |-> NoResolver]
  /\ attempts = 0
  /\ SyncIdle
  /\ ReloadIdle
  /\ TerraformIdle
  /\ ScanIdle

ProviderNext ==
  \/ \E c \in Resolvers, forceInit \in BOOLEAN : ResolveProviders(c, forceInit)
  \/ \E c \in Resolvers : DetectCycles(c)
  \/ \E c \in Resolvers, taskResults \in [Providers -> [error : BOOLEAN]] :
       TasksProcessed(c, taskResults)
  \/ \E c \in Resolvers : ProvidersResolved(c)
  \/ \E c \in Resolvers : AddModuleRaises(c)
  \/ \E c \in Resolvers : ProvidersReturned(c)

ProviderSpec == ProviderInit /\ [][ProviderNext]_vars


\* ------------------------------------------------------------------------
\* syncToService (hot-reload.ts)
\* ------------------------------------------------------------------------

\* The steps of doSync that can reject, in order (the post-sync command only
\* when hotReloadSpec.postSyncCommand is set).
SyncStages == <<"getPortForward", "rsync", "execInWorkload">>

\* The messages of the errors those steps reject with, as lists of parts.
SyncMessages ==
  { <<"did not see server greeting">>,
    <<"rsync: ", "did not see server greeting", " (code 12)">>,
    <<"rsync: ", "connection refused">>,
    <<"did not see server">>,
    <<>> }

\* An includes that finds the text in every message.
includesAny(message, text) == TRUE

\* error.message.includes(text)
includes(message, text) == \E i \in 1..Len(message) : message[i] = text

\* new RuntimeError(`Unexpected error while synchronising to service ...: ${error.message}`, { error })
RuntimeError(error) ==
  [type |-> "RuntimeError",
   message |-> <<"Unexpected error while synchronising to service: ">> \o error.message,
   cause |-> error.message]

\* syncToService is called: the first doSync starts.
SyncToService(postSyncCommand) ==
  /\ sync.pc \in {"idle", "returned", "raised"}
  /\ syncCalls < MaxSyncs
  /\ syncCalls' = syncCalls + 1
  /\ sync' = [NoSync EXCEPT !.pc = "doSync", !.postSyncCommand = postSyncCommand]
  /\ UNCHANGED nonSyncVars

\* doSync resolves: syncToService returns.
DoSyncResolves ==
  /\ sync.pc = "doSync"
  /\ sync' = [sync EXCEPT !.pc = "returned",
                          !.attempts = Append(@, [ok |-> TRUE, stage |-> "", message |-> <<>>])]
  /\ UNCHANGED syncCalls
  /\ UNCHANGED nonSyncVars

\* doSync rejects at a stage.  The inner catch of the first doSync kills the
\* port-forward and runs doSync again when the message includes the
\* greeting text and rethrows otherwise; the outer catch wraps what the
\* inner one throws, the rejection of the second doSync included.
DoSyncRaises(stage, message) ==
  /\ sync.pc = "doSync"
  /\ stage = "execInWorkload" => sync.postSyncCommand
  /\ LET error == [type |-> "Error", message |-> message, cause |-> <<>>]
         rejected == [sync EXCEPT !.attempts =
                      Append(@, [ok |-> FALSE, stage |-> stage, message |-> message])]
     IN  sync' = IF Len(sync.attempts) = 0 /\ includes(message, "did not see server greeting")
                   THEN [rejected EXCEPT !.killed = @ + 1]
                   ELSE [rejected EXCEPT !.pc = "raised", !.error = RuntimeError(error)]
  /\ UNCHANGED syncCalls
  /\ UNCHANGED nonSyncVars

SyncInit ==
  /\ SchedIdle
  /\ CacheEmpty
  /\ WatchIdle
  /\ VersionIdle
  /\ HashIdle
  /\ NamespacesIdle
  /\ MavenIdle
  /\ GetFilesIdle
  /\ BuildIdle
  /\ ProvidersIdle
  /\ SyncIdle
  /\ ReloadIdle
  /\ TerraformIdle
  /\ ScanIdle

SyncNext ==
  \/ \E postSyncCommand \in BOOLEAN : SyncToService(postSyncCommand)
  \/ DoSyncResolves
  \/ \E i \in 1..Len(SyncStages), message \in SyncMessages : DoSyncRaises(SyncStages[i], message)

SyncSpec == SyncInit /\ [][SyncNext]_vars


\* ------------------------------------------------------------------------
\* autoReloadModules (watch.ts)
\* ------------------------------------------------------------------------

\* The dependency lists a module can have: any modules, cycles included, in
\* config order.
ReloadDependencyLists ==
  {SelectSeq(ReloadModules, LAMBDA m : m \in S) : S \in SUBSET ReloadNames}

\* The build dependencies of the project: api and web depend on any
\* modules, themselves included; db depends on at most one other module.
BuildDependencyGraphs ==
  {g \in [ReloadNames -> ReloadDependencyLists] : g["db"] \in {<<>>, <<"api">>, <<"web">>}}

\* The service dependencies: db has at most one service, of one module.
ServiceDependencyGraphs ==
  {g \in [ReloadNames -> ReloadDependencyLists] :
     /\ Len(g["db"]) <= 1
     /\ \A m \in ReloadNames \ {"db"} : g[m] = <<>>}

\* The calls made: the input modules and the project they are in.
ReloadCalls ==
  [modules : SeqsUpTo(ReloadNames, MaxInputs), build : BuildDependencyGraphs,
   service : ServiceDependencyGraphs]

\* uniqBy(list, m => m.name): the first occurrence of each name, in order.
RECURSIVE uniqBy(_)
uniqBy(list) ==
  IF list = <<>> THEN <<>>
  ELSE LET first == uniqBy(SubSeq(list, 1, Len(list) - 1))
           last == list[Len(list)]
       IN  IF \E i \in 1..Len(first) : first[i] = last THEN first ELSE Append(first, last)

\* uniqBy(buildDepModules.concat(serviceDepModules), m => m.name)
uniqueDependencyModules(module) ==
  uniqBy(buildDependencies[module] \o serviceDependencies[module])

\* KeyedSet keyed by m => m.name: has, add and entries.
KeyedSetHas(set, module) == \E i \in 1..Len(set) : set[i] = module

KeyedSetAdd(set, module) == IF KeyedSetHas(set, module) THEN set ELSE Append(set, module)

\* A scanner that follows no dependency.
ScansNothing(set, dep) == FALSE

\* if (!moduleSet.has(dep)) { await scanner(dep) }
ScansDependency(set, dep) == ~KeyedSetHas(set, dep)

\* scanner(module) is entered: the module is added and its dependencies
\* are fetched.
ScannerFrame(module) == [module |-> module, deps |-> uniqueDependencyModules(module), i |-> 1]

\* autoReloadModules(modules) is called on a project with the given
\* dependencies.
AutoReloadModules(ms, build, service) ==
  /\ reload.pc = "idle"
  /\ buildDependencies' = build
  /\ serviceDependencies' = service
  /\ reload' = [NoReload EXCEPT !.pc = "scanning", !.modules = ms, !.inputs = ms]
  /\ UNCHANGED nonReloadVars

\* for (const m of modules) { await scanner(m) }, and the return after it.
NextInput ==
  /\ reload.pc = "scanning"
  /\ reload.stack = <<>>
  /\ reload' = IF reload.inputs = <<>>
                 THEN [reload EXCEPT !.pc = "returned", !.result = reload.moduleSet]
                 ELSE [reload EXCEPT !.inputs = Tail(@),
                                     !.moduleSet = KeyedSetAdd(@, Head(reload.inputs)),
                                     !.stack = <<ScannerFrame(Head(reload.inputs))>>]
  /\ UNCHANGED <<buildDependencies, serviceDependencies>>
  /\ UNCHANGED nonReloadVars

\* The innermost scanner takes its next dependency, entering scanner(dep)
\* unless the set has it, or returns after the last one.
ScannerStep ==
  /\ reload.pc = "scanning"
  /\ reload.stack # <<>>
  /\ LET n == Len(reload.stack)
         top == reload.stack[n]
     IN  reload' =
           IF top.i > Len(top.deps)
             THEN [reload EXCEPT !.stack = SubSeq(@, 1, n - 1)]
           ELSE IF ScansDependency(reload.moduleSet, top.deps[top.i])
             THEN [reload EXCEPT !.stack = Append([@ EXCEPT ![n].i = top.i + 1],
                                                  ScannerFrame(top.deps[top.i])),
                                 !.moduleSet = KeyedSetAdd(@, top.deps[top.i])]
           ELSE [reload EXCEPT !.stack[n].i = top.i + 1]
  /\ UNCHANGED <<buildDependencies, serviceDependencies>>
  /\ UNCHANGED nonReloadVars

ReloadInit ==
  /\ SchedIdle
  /\ CacheEmpty
  /\ WatchIdle
  /\ VersionIdle
  /\ HashIdle
  /\ NamespacesIdle
  /\ MavenIdle
  /\ GetFilesIdle
  /\ BuildIdle
  /\ ProvidersIdle
  /\ SyncIdle
  /\ ReloadIdle
  /\ TerraformIdle
  /\ ScanIdle

ReloadNext ==
  \/ \E c \in IF reload.pc = "idle" THEN ReloadCalls ELSE {} :
       AutoReloadModules(c.modules, c.build, c.service)
  \/ NextInput
  \/ ScannerStep

\* Every await of the walk settles: a started call keeps taking steps.
ReloadSpec ==
  ReloadInit /\ [][ReloadNext]_vars /\ WF_vars(NextInput) /\ WF_vars(ScannerStep)


\* ------------------------------------------------------------------------
\* tfValidate (terraform/common.ts)
\* ------------------------------------------------------------------------

\* JSON values as the code compares them: a type and the value's text.
JsBoolean(b) == [type |-> "boolean", text |-> IF b THEN "true" ELSE "false"]

JsString(text) == [type |-> "string", text |-> text]

\* a === b
StrictEquals(a, b) == a.type = b.type /\ a.text = b.text

\* The summaries of the diagnostics of `terraform validate -json`.
Summaries ==
  {"Could not satisfy plugin requirements", "Unsupported argument", "Missing required argument"}

\* What `terraform validate -json` prints: valid is a JSON boolean, and an
\* invalid configuration comes with one or two diagnostics.
ValidationResults ==
  {[valid |-> JsBoolean(TRUE), diagnostics |-> <<>>]} \cup
  {[valid |-> JsBoolean(FALSE), diagnostics |-> d] :
     d \in {l \in SeqsUpTo(Summaries, 2) : l # <<>> /\ (Len(l) = 2 => l[1] # l[2])}}

\* res.diagnostics.map((d) => d.summary).includes(summary)
reasonsInclude(res, summary) == \E i \in 1..Len(res.diagnostics) : res.diagnostics[i] = summary

\* res.valid === false
FirstIsInvalid(res) == StrictEquals(res.valid, JsBoolean(FALSE))

\* retryRes.valid === "false"
RetryIsInvalid(retryRes) == StrictEquals(retryRes.valid, JsString("false"))

\* tfValidationError(result): the ConfigurationError listing the diagnostics.
tfValidationError(result) == <<"Failed validating Terraform configuration:">> \o result.diagnostics

\* tfValidate is called: the first validation starts.
TfValidate ==
  /\ tf.pc \in {"idle", "returned", "raised"}
  /\ tfCalls < MaxValidations
  /\ tfCalls' = tfCalls + 1
  /\ tf' = [NoValidation EXCEPT !.pc = "awaitValidate"]
  /\ UNCHANGED nonTerraformVars

\* The first validation prints res.
Validated(res) ==
  /\ tf.pc = "awaitValidate"
  /\ tf' = IF ~FirstIsInvalid(res)
             THEN [tf EXCEPT !.pc = "returned", !.runs = Append(@, res)]
           ELSE IF reasonsInclude(res, "Could not satisfy plugin requirements")
             THEN [tf EXCEPT !.pc = "awaitInit", !.runs = Append(@, res)]
           ELSE [tf EXCEPT !.pc = "raised", !.runs = Append(@, res),
                           !.error = tfValidationError(res)]
  /\ UNCHANGED tfCalls
  /\ UNCHANGED nonTerraformVars

\* `terraform init` exits: with an error, which exec throws, or cleanly, and
\* then the validation is run again.
Initialized(ok) ==
  /\ tf.pc = "awaitInit"
  /\ tf' = IF ok THEN [tf EXCEPT !.pc = "awaitRetry", !.inits = @ + 1]
                 ELSE [tf EXCEPT !.pc = "raised", !.inits = @ + 1,
                                 !.error = <<"Command failed: terraform init">>]
  /\ UNCHANGED tfCalls
  /\ UNCHANGED nonTerraformVars

\* The retried validation prints retryRes.
Revalidated(retryRes) ==
  /\ tf.pc = "awaitRetry"
  /\ tf' = IF RetryIsInvalid(retryRes)
             THEN [tf EXCEPT !.pc = "raised", !.runs = Append(@, retryRes),
                             !.error = tfValidationError(retryRes)]
             ELSE [tf EXCEPT !.pc = "returned", !.runs = Append(@, retryRes)]
  /\ UNCHANGED tfCalls
  /\ UNCHANGED nonTerraformVars

TerraformInit ==
  /\ SchedIdle
  /\ CacheEmpty
  /\ WatchIdle
  /\ VersionIdle
  /\ HashIdle
  /\ NamespacesIdle
  /\ MavenIdle
  /\ GetFilesIdle
  /\ BuildIdle
  /\ ProvidersIdle
  /\ SyncIdle
  /\ ReloadIdle
  /\ TerraformIdle
  /\ ScanIdle

TerraformNext ==
  \/ TfValidate
  \/ \E res \in ValidationResults : Validated(res)
  \/ \E ok \in BOOLEAN : Initialized(ok)
  \/ \E retryRes \in ValidationResults : Revalidated(retryRes)

TerraformSpec == TerraformInit /\ [][TerraformNext]_vars


\* ------------------------------------------------------------------------
\* Garden.scanModules and Garden.addModule (garden.ts)
\* ------------------------------------------------------------------------

\* The projects scanned: no module, one, two, and two configs that declare
\* the same module.
Disks ==
  { <<>>,
    <<[name |-> "a", plugin |-> "", path |-> "/proj/a"]>>,
    <<[name |-> "a", plugin |-> "", path |-> "/proj/a"],
      [name |-> "b", plugin |-> "", path |-> "/proj/b"]>>,
    <<[name |-> "a", plugin |-> "", path |-> "/proj/a"],
      [name |-> "a", plugin |-> "", path |-> "/proj/a2"]>> }

\* getModuleKey(name, plugin): the name, scoped to the plugin if there is one.
getModuleKey(name, plugin) == IF plugin = "" THEN name ELSE plugin \o "--" \o name

\* addModule(config): throws if the key is registered, registers it otherwise.
addModule(configs, config) ==
  LET key == getModuleKey(config.name, config.plugin)
  IN IF configs.moduleConfigs[key] # ""
       THEN [moduleConfigs |-> configs.moduleConfigs, errors |-> Append(configs.errors, key)]
       ELSE [moduleConfigs |-> [configs.moduleConfigs EXCEPT ![key] = config.path],
             errors |-> configs.errors]

RECURSIVE addModules(_, _)
\* Bluebird.map(rawConfigs, async (config) => this.addModule(config)): every
\* addModule call runs, in order, up to its throw.
addModules(configs, rawConfigs) ==
  IF rawConfigs = <<>> THEN configs
  ELSE addModules(addModule(configs, Head(rawConfigs)), Tail(rawConfigs))

\* The calls after the lock is released: the function of the first caller in
\* the queue starts.
GrantedScanners(ss, lock) ==
  [c \in Scanners |-> IF lock.queue # <<>> /\ c = Head(lock.queue)
                        THEN [ss[c] EXCEPT !.pc = "locked"] ELSE ss[c]]

\* The function passed to acquire has settled for caller c: the lock is
\* released.
ScanSettles(c, pc, error) ==
  /\ scanLock' = Released(scanLock)
  /\ scanners' = [GrantedScanners(scanners, scanLock) EXCEPT ![c].pc = pc, ![c].error = error]

\* scanModules(force): this.asyncLock.acquire("scan-modules", ...)
ScanModules(c, force) ==
  /\ scanners[c].pc \in {"idle", "returned", "raised"}
  /\ LET started == [NoScan EXCEPT !.force = force]
     IN IF LockIsFree(scanLock)
          THEN /\ scanners' = [scanners EXCEPT ![c] = [started EXCEPT !.pc = "locked"]]
               /\ scanLock' = [scanLock EXCEPT !.holder = c]
          ELSE /\ scanners' = [scanners EXCEPT ![c] = [started EXCEPT !.pc = "waiting"]]
               /\ scanLock' = [scanLock EXCEPT !.queue = Append(@, c)]
  /\ UNCHANGED <<configsOnDisk, moduleConfigs, modulesScanned>>
  /\ UNCHANGED nonScanVars

\* The locked function up to its first await: it returns if the modules are
\* scanned and the scan is not forced, and scans the directories otherwise.
ScanStarts(c) ==
  /\ scanners[c].pc = "locked"
  /\ IF modulesScanned /\ ~scanners[c].force
       THEN ScanSettles(c, "returned", "")
       ELSE /\ scanners' = [scanners EXCEPT ![c].pc = "scanning"]
            /\ UNCHANGED scanLock
  /\ UNCHANGED <<configsOnDisk, moduleConfigs, modulesScanned>>
  /\ UNCHANGED nonScanVars

\* The configs are loaded: each is handed to addModule, and modulesScanned
\* is set unless one of the calls threw.
ModulesAdded(c) ==
  /\ scanners[c].pc = "scanning"
  /\ LET added == addModules([moduleConfigs |-> moduleConfigs, errors |-> <<>>], configsOnDisk)
     IN /\ moduleConfigs' = added.moduleConfigs
        /\ IF added.errors = <<>>
             THEN /\ modulesScanned' = TRUE
                  /\ ScanSettles(c, "returned", "")
             ELSE /\ UNCHANGED modulesScanned
                  /\ ScanSettles(c, "raised", "declared multiple times")
  /\ UNCHANGED configsOnDisk
  /\ UNCHANGED nonScanVars

\* scanForConfigs or loadModuleConfigs rejects: the scan raises.
ScanRaises(c) ==
  /\ scanners[c].pc = "scanning"
  /\ ScanSettles(c, "raised", "scan failed")
  /\ UNCHANGED <<configsOnDisk, moduleConfigs, modulesScanned>>
  /\ UNCHANGED nonScanVars

ScanInit ==
  /\ SchedIdle
  /\ CacheEmpty
  /\ WatchIdle
  /\ VersionIdle
  /\ HashIdle
  /\ NamespacesIdle
  /\ MavenIdle
  /\ GetFilesIdle
  /\ BuildIdle
  /\ ProvidersIdle
  /\ SyncIdle
  /\ ReloadIdle
  /\ TerraformIdle
  /\ configsOnDisk \in Disks
  /\ moduleConfigs = [k \in ModuleKeys |-> ""]
  /\ modulesScanned = FALSE
  /\ scanLock = [holder |-> 0, queue |-> <<>>]
  /\ scanners = [c \in Scanners |-> NoScan]

ScanNext ==
  \/ \E c \in Scanners, force \in BOOLEAN : ScanModules(c, force)
  \/ \E c \in Scanners : ScanStarts(c)
  \/ \E c \in Scanners : ModulesAdded(c)
  \/ \E c \in Scanners : ScanRaises(c)

ScanSpec == ScanInit /\ [][ScanNext]_vars

\* ------------------------------------------------------------------------
\* What the caller asked for, read off the config graph and the root tasks
\* ------------------------------------------------------------------------

\* The key a delete task for the service has.
TrueKey(service) == makeBaseKey("delete-service", service)

\* The services whose delete tasks the delete task of `service` depends on.
TaskDependencies(service) == IF includeDependants THEN graph[service] ELSE {}

TaskGraphOf == [s \in ServiceNames |-> TaskDependencies(s)]

RootServices == {rootTasks[i].name : i \in 1..Len(rootTasks)}

\* The services a task of the call exists for: the roots and their transitive
\* dependencies.
ReachableServices == RootServices \cup Reach(TaskGraphOf, {}, RootServices)

GraphHasCycle == \E s \in ReachableServices : s \in Reach(TaskGraphOf, {}, {s})

TaskState(k) == IF k \in DOMAIN status THEN status[k] ELSE "absent"

\* The process() invocations made for tasks of the service.
Invocations(service) == {u \in DOMAIN runs : runs[u].task.name = service}

InFlight == {u \in DOMAIN runs : runs[u].state = "running"}

\* The services whose task's process() threw.
Thrown == {runs[u].task.name : u \in {v \in DOMAIN runs : runs[v].state = "threw"}}

\* ------------------------------------------------------------------------
\* Claims about the scheduler
\* ------------------------------------------------------------------------

\* C1: a task's process() is started only once every one of its dependencies
\* (matched by key) is done: whenever a task has been started, each dependency
\* has completed successfully, never pending, running, failed or
\* failed-by-propagation.
C1_StartOnlyAfterDependenciesDone ==
  \A u \in DOMAIN runs :
    \A d \in TaskDependencies(runs[u].task.name) :
      /\ TaskState(TrueKey(d)) = "done"
      /\ \E v \in Invocations(d) : runs[v].state = "ok"

\* A task with at least one dependency has been started.
C1_Witness ==
  \E u \in DOMAIN runs : TaskDependencies(runs[u].task.name) # {}

\* C2: when the key graph reachable from the roots has a cycle, no process()
\* is ever invoked and the call never starts executing or returns a result
\* map; it ends raising one error that carries the cycles and no results.
C2_CycleRejectsEverything ==
  GraphHasCycle =>
    /\ runs = EmptyMap
    /\ phase \notin {"executing", "returned"}
    /\ (phase = "raised" =>
          /\ returned.error = "cycles"
          /\ returned.cycles # {}
          /\ returned.results = EmptyMap)
    /\ (phase = "expanding" /\ worklist = <<>> => ENABLED Plan)

\* The call raised the cycle error with a task in the graph that is on no cycle.
C2_Witness ==
  /\ phase = "raised"
  /\ \E k \in DOMAIN nodes : k \notin UNION returned.cycles

\* C3: when a task B's process() threw, every task A of the call that
\* transitively depends on B is failed-by-propagation, was never invoked, and
\* has a result whose error names a failed dependency as its cause, unlike
\* B's own result, whose error is its own failure.
C3_FailurePropagates ==
  \A b \in Thrown :
    /\ TaskState(TrueKey(b)) = "failed"
    /\ TrueKey(b) \in DOMAIN results
    /\ results[TrueKey(b)].error = [kind |-> "failed", cause |-> TrueKey(b)]
    /\ \A a \in ReachableServices :
         b \in Reach(TaskGraphOf, {}, {a}) =>
           /\ TaskState(TrueKey(a)) = "failed-by-propagation"
           /\ Invocations(a) = {}
           /\ TrueKey(a) \in DOMAIN results
           /\ results[TrueKey(a)].error.kind = "dependency-failed"
           /\ \E c \in Thrown \cap Reach(TaskGraphOf, {}, {a}) :
                results[TrueKey(a)].error.cause = TrueKey(c)

\* A task threw and a task depends on it only through a third one.
C3_Witness ==
  \E b \in Thrown : \E a \in ReachableServices :
    /\ b \in Reach(TaskGraphOf, {}, {a})
    /\ b \notin TaskDependencies(a)

\* C4: for every key at most one process() is invoked in the call, however
\* many instances share the key, and every started task was handed, for each
\* of its dependencies, the output of that one invocation.
C4_OneExecutionPerKey ==
  /\ \A s \in ServiceNames : Cardinality(Invocations(s)) <= 1
  /\ \A u \in DOMAIN runs :
       \A d \in TaskDependencies(runs[u].task.name) :
         /\ TrueKey(d) \in DOMAIN runs[u].dependencyResults
         /\ \E v \in Invocations(d) :
              /\ runs[v].state = "ok"
              /\ runs[u].dependencyResults[TrueKey(d)].output
                   = process(runs[v].task, "deleted").output

\* A started task depends on a key that several instances share.
C4_Witness ==
  \E u \in DOMAIN runs : \E d \in TaskDependencies(runs[u].task.name) :
    Cardinality({t \in instances : t.name = d}) >= 2

\* The tasks with no dependency path to a task that threw.
Unaffected == {s \in ReachableServices : Thrown \cap ({s} \cup Reach(TaskGraphOf, {}, {s})) = {}}

\* C5: on an acyclic graph, under fair scheduling, the call reaches its end
\* with every task that has no dependency path to a failed task done.
C5_UnrelatedWorkCompletes ==
  ~GraphHasCycle =>
    <>(phase = "returned" /\ \A s \in Unaffected : TaskState(TrueKey(s)) = "done")

\* The call returned under a concurrency limit of one with a failed task and a
\* done one.
C5_Witness ==
  /\ phase = "returned"
  /\ opts.limited /\ opts.concurrencyLimit = 1
  /\ Thrown # {}
  /\ \E s \in Unaffected : TaskState(TrueKey(s)) = "done"

\* C6: on an acyclic graph the call never raises; when it has returned, the
\* result map has an entry for every reachable task, each a success (an
\* output and no error) or an error (no output).
C6_ResultMapIsComplete ==
  ~GraphHasCycle =>
    /\ phase # "raised"
    /\ (phase = "returned" =>
          /\ returned.error = "none"
          /\ \A s \in ReachableServices :
               /\ TrueKey(s) \in DOMAIN returned.results
               /\ LET r == returned.results[TrueKey(s)]
                  IN \/ r.error = NoError /\ r.output # ""
                     \/ r.error.kind \in {"failed", "dependency-failed"} /\ r.output = "")

\* The call returned a map that mixes a success, a failure and a skipped task.
C6_Witness ==
  /\ phase = "returned"
  /\ \E a, b, c \in DOMAIN returned.results :
       /\ returned.results[a].error.kind = "none"
       /\ returned.results[b].error.kind = "failed"
       /\ returned.results[c].error.kind = "dependency-failed"

\* C7: on an acyclic graph, with every started process() ending, the call
\* eventually returns, and then every reachable task is done, failed or
\* failed-by-propagation.
C7_ProcessTerminates ==
  ~GraphHasCycle =>
    <>(phase = "returned" /\
       \A s \in ReachableServices : TaskState(TrueKey(s)) \in TerminalStates)

\* The call returned after running several tasks under a limit of one.
C7_Witness ==
  /\ phase = "returned"
  /\ opts.limited /\ opts.concurrencyLimit = 1
  /\ Cardinality(DOMAIN runs) >= 2

\* The call returned for no root tasks at all.
C7_WitnessNoRoots == phase = "returned" /\ rootTasks = <<>>

\* C8: with concurrencyLimit = n passed to processTasks, never more than n
\* process() invocations are in flight.
C8_AtMostLimitRunning ==
  opts.limited => Cardinality(InFlight) <= opts.concurrencyLimit

\* The limit binds: it is used up while another task is eligible.
C8_Witness ==
  /\ opts.limited
  /\ Cardinality(InFlight) = opts.concurrencyLimit
  /\ \E k \in DOMAIN status : Eligible(k)

\* ------------------------------------------------------------------------
\* Claims about the scoped cache
\* ------------------------------------------------------------------------

\* A path without a trailing separator.
StripTrailing(p) ==
  IF Len(p) > 1 /\ SubSeq(p, Len(p), Len(p)) = "/" THEN SubSeq(p, 1, Len(p) - 1) ELSE p

RECURSIVE JoinPath(_)
\* The path a context stands for.
JoinPath(context) ==
  IF context = <<>> THEN "" ELSE "/" \o Head(context) \o JoinPath(Tail(context))

\* Directory c is path p or one of the directories p lies in.
PathIsAtOrAbove(c, p) ==
  \/ c = p
  \/ Len(c) < Len(p) /\ SubSeq(p, 1, Len(c) + 1) = c \o "/"

\* The entry under key carries the one context `path`.
OnlyContext(c, key, path) ==
  key \in DOMAIN c /\ {JoinPath(x) : x \in c[key].contexts} = {path}

\* C9: invalidateUp(p) removes exactly the entries with a context that is p or
\* an ancestor directory of p; every other entry, those tagged only below p or
\* elsewhere included, stays as it was and get() still returns its value.
C9_InvalidateUpRemovesExactly ==
  [][lastOp'.op = "invalidateUp" =>
       /\ DOMAIN cache' \subseteq DOMAIN cache
       /\ \A key \in DOMAIN cache :
            IF \E x \in cache[key].contexts :
                 PathIsAtOrAbove(JoinPath(x), StripTrailing(lastOp'.path))
              THEN CacheGet(cache', key) = Missing
              ELSE /\ CacheGet(cache', key) = cache[key].value
                   /\ cache'[key] = cache[key]]_vars

\* An invalidateUp removed an entry and left one whose only context lies
\* strictly below the path.
C9_Witness ==
  /\ lastOp.op = "invalidateUp"
  /\ lastOp.removed # {}
  /\ \E key \in DOMAIN cache : \E x \in cache[key].contexts :
       /\ Cardinality(cache[key].contexts) = 1
       /\ JoinPath(x) # lastOp.path
       /\ PathIsAtOrAbove(lastOp.path, JoinPath(x))

\* C10 as stated: an entry whose single context is /proj/modA/src/x.ts is gone
\* after invalidateUp(/proj/modA) and still there after invalidateUp(/other/modB).
C10_AsStated ==
  [][\A key \in CacheKeys :
       OnlyContext(cache, key, "/proj/modA/src/x.ts") /\ lastOp'.op = "invalidateUp" =>
         /\ lastOp'.path = "/proj/modA" => CacheGet(cache', key) = Missing
         /\ lastOp'.path = "/other/modB" => CacheGet(cache', key) = cache[key].value]_vars

\* C10, amended: an entry whose single context is /proj/modA/src/x.ts is still
\* there after invalidateUp(/proj/modA) and after invalidateUp(/other/modB);
\* an entry whose single context is /proj/modA is gone after
\* invalidateUp(/proj/modA/src/x.ts).
C10_InvalidateUpExample ==
  [][\A key \in CacheKeys :
       lastOp'.op = "invalidateUp" =>
         /\ OnlyContext(cache, key, "/proj/modA/src/x.ts")
              /\ lastOp'.path \in {"/proj/modA", "/other/modB"}
              => CacheGet(cache', key) = cache[key].value
         /\ OnlyContext(cache, key, "/proj/modA") /\ lastOp'.path = "/proj/modA/src/x.ts"
              => CacheGet(cache', key) = Missing]_vars

\* invalidateUp(/proj/modA) was made and the entry tagged /proj/modA/src/x.ts is there.
C10_Witness ==
  /\ lastOp.op = "invalidateUp"
  /\ lastOp.path = "/proj/modA"
  /\ \E key \in CacheKeys : OnlyContext(cache, key, "/proj/modA/src/x.ts")

\* invalidateUp(/proj/modA/src/x.ts) removed an entry tagged /proj/modA.
C10_WitnessRemoved ==
  /\ lastOp.op = "invalidateUp"
  /\ lastOp.path = "/proj/modA/src/x.ts"
  /\ lastOp.removed # {}

\* C11: invalidateDown(p) removes exactly the entries with a context that is p
\* or lies below p; every other entry stays as it was: one set with the single
\* context /proj/modA survives invalidateDown(/proj/modA/sub) and is removed by
\* invalidateDown(/proj).
C11_InvalidateDownRemovesExactly ==
  [][lastOp'.op = "invalidateDown" =>
       /\ DOMAIN cache' \subseteq DOMAIN cache
       /\ \A key \in DOMAIN cache :
            /\ IF \E x \in cache[key].contexts :
                    PathIsAtOrAbove(StripTrailing(lastOp'.path), JoinPath(x))
                 THEN CacheGet(cache', key) = Missing
                 ELSE /\ CacheGet(cache', key) = cache[key].value
                      /\ cache'[key] = cache[key]
            /\ OnlyContext(cache, key, "/proj/modA") =>
                 /\ lastOp'.path = "/proj/modA/sub" => key \in DOMAIN cache'
                 /\ lastOp'.path = "/proj" => key \notin DOMAIN cache']_vars

\* invalidateDown(/proj/modA/sub) was made and an entry tagged only /proj/modA is there.
C11_Witness ==
  /\ lastOp.op = "invalidateDown"
  /\ lastOp.path = "/proj/modA/sub"
  /\ \E key \in CacheKeys : OnlyContext(cache, key, "/proj/modA")

\* invalidateDown(/proj) removed an entry.
C11_WitnessRemoved ==
  /\ lastOp.op = "invalidateDown"
  /\ lastOp.path = "/proj"
  /\ lastOp.removed # {}

\* Whether an invalidation `op` asked for `path` is one that clears context x.
Matches(op, path, x) ==
  CASE op = "invalidate" -> JoinPath(x) = StripTrailing(path)
    [] op = "invalidateUp" -> PathIsAtOrAbove(JoinPath(x), StripTrailing(path))
    [] op = "invalidateDown" -> PathIsAtOrAbove(StripTrailing(path), JoinPath(x))
    [] OTHER -> FALSE

\* C12: an entry stored by set(key, v, c1..cn) stays, with get(key) = v, through
\* every operation that is not an invalidation matching one of its contexts
\* (a set of another key included: nothing expires or is evicted), and the
\* first invalidate, invalidateUp or invalidateDown that matches any one of
\* its contexts removes the entry as a whole.
C12_EntryLivesUntilInvalidated ==
  [][/\ lastOp'.op \in {"invalidate", "invalidateUp", "invalidateDown"} =>
          \A key \in DOMAIN cache :
            IF \E x \in cache[key].contexts : Matches(lastOp'.op, lastOp'.path, x)
              THEN CacheGet(cache', key) = Missing
              ELSE CacheGet(cache', key) = cache[key].value /\ cache'[key] = cache[key]
     /\ lastOp'.op = "set" =>
          \E k \in CacheKeys :
            /\ k \in DOMAIN cache' /\ cache'[k].contexts # {}
            /\ \A key \in DOMAIN cache \ {k} :
                 CacheGet(cache', key) = cache[key].value /\ cache'[key] = cache[key]]_vars

\* An invalidate removed an entry and left one with two contexts, neither of
\* them the invalidated one.
C12_Witness ==
  /\ lastOp.op = "invalidate"
  /\ lastOp.removed # {}
  /\ \E key \in DOMAIN cache :
       /\ Cardinality(cache[key].contexts) = 2
       /\ \A x \in cache[key].contexts : JoinPath(x) # lastOp.path

\* ------------------------------------------------------------------------
\* Claims about the file watcher
\* ------------------------------------------------------------------------

\* The files named as the module config or as an ignore file.
ConfigOrIgnoreFiles ==
  {"/proj/modA/garden.yml", "/proj/.gitignore", "/proj/unrelated/.gardenignore"}

\* The modules the watcher was given.
Watched == {modules[i] : i \in 1..Len(modules)}

\* The modules the watcher knows of: the ones it was given and the project's.
KnownModules == Watched \cup {getModules[i] : i \in 1..Len(getModules)}

\* The watched modules whose root directory the path lies in, by path segments.
Owners(path) == {m \in Watched : PathIsAtOrAbove(m.path, path)}

\* The owner every other owner contains.
Innermost(path) ==
  CHOOSE m \in Owners(path) : \A o \in Owners(path) : PathIsAtOrAbove(o.path, m.path)

\* The modules the logged effects applied invalidateUp to.
Invalidated(log) == {log[i].module : i \in {j \in 1..Len(log) : log[j].do = "invalidateUp"}}

\* The callbacks among the logged effects, in order.
Calls(log) == SelectSeq(log, LAMBDA e : e.do = "onChange")

\* The handler is through with the event.
Settled(kind) == watch.kind = kind /\ watch.pc = "idle"

\* The outcome of a structural event: every known module invalidated and one
\* callback, onChange(null, true).
IsStructuralOutcome(log) ==
  /\ Calls(log) = <<OnChangeEffect(NoModule, TRUE)>>
  /\ {m.name : m \in KnownModules} \subseteq Invalidated(log)

\* The outcome of an event owned by module m: m alone invalidated, and then
\* onChange(m, false).
IsModuleOutcome(log, m) == log = <<InvalidateUpEffect(m), OnChangeEffect(m, FALSE)>>

\* C13: a file event whose path lies under no known module root and is not
\* named as the module config or an ignore file is a no-op: nothing is
\* invalidated and the change callback is not invoked.
C13_UnownedFileIsIgnored ==
  /\ Settled("file")
  /\ watch.path \notin ConfigOrIgnoreFiles
  /\ Owners(watch.path) = {}
  => watch.log = <<>>

\* C14: for a file event whose basename is garden.yml, .gitignore or
\* .gardenignore, wherever the file lies, the watcher never invokes onChange
\* with a module or more than once, and when it is through it has applied
\* invalidateUp to the root of every known module and has invoked
\* onChange(null, true) exactly once, after them.
C14_ConfigFileIsStructural ==
  watch.kind = "file" /\ watch.path \in ConfigOrIgnoreFiles =>
    /\ Len(Calls(watch.log)) <= 1
    /\ \A i \in 1..Len(watch.log) :
         watch.log[i].do = "onChange" =>
           /\ watch.log[i] = OnChangeEffect(NoModule, TRUE)
           /\ {m.name : m \in KnownModules} \subseteq Invalidated(SubSeq(watch.log, 1, i - 1))
    /\ watch.pc = "idle" => IsStructuralOutcome(watch.log)
    /\ watch.pc # "idle" => watch.pc \in {"awaitInvalidate", "resume"} /\ Calls(watch.log) = <<>>

\* The watcher is through with a change of the garden.yml inside module modA.
C14_Witness ==
  /\ Settled("file")
  /\ watch.path = "/proj/modA/garden.yml"
  /\ Calls(watch.log) # <<>>

\* The entries of cache c tagged with the root of module m.
TaggedAt(c, m) == {key \in DOMAIN c : \E x \in c[key].contexts : JoinPath(x) = m.path}

\* C15: for a file event that is not structural, under the root of a known
\* module M (and of no other), the watcher applies invalidateUp(M's root) and
\* only then invokes onChange(M, false): the cache the callback sees holds no
\* entry tagged with M's root.
C15_InvalidateBeforeCallback ==
  [][/\ lastOp'.op = "watch"
     /\ watch'.kind = "file"
     /\ watch'.path \notin ConfigOrIgnoreFiles
     /\ Cardinality(Owners(watch'.path)) = 1
     => \A m \in Owners(watch'.path) :
          /\ IsModuleOutcome(watch'.log, m)
          /\ TaggedAt(cache', m) = {}]_vars

\* C16: when the watcher is through with an unlinkDir of directory d: if d is
\* the root of a known module or a directory above one, every module was
\* invalidated and onChange(null, true) invoked, whatever the order of the
\* module list; otherwise, if d lies under a module root, only the (innermost)
\* containing module was invalidated and onChange(thatModule, false) invoked;
\* otherwise nothing was invalidated or invoked.
C16_DirRemovedClassified ==
  Settled("unlinkDir") =>
    IF \E m \in Watched : PathIsAtOrAbove(watch.path, m.path)
      THEN IsStructuralOutcome(watch.log)
    ELSE IF Owners(watch.path) # {}
      THEN IsModuleOutcome(watch.log, Innermost(watch.path))
    ELSE watch.log = <<>>

\* C17: when the watcher is through with an addDir of directory d: if the
\* contents of d include a module config file, every module was invalidated
\* and onChange(null, true) invoked; otherwise, if d lies under a known module
\* root, a module containing d was invalidated and onChange(thatModule, false)
\* invoked; otherwise nothing was invalidated or invoked.
C17_DirAddedClassified ==
  Settled("addDir") =>
    IF watch.hasConfig
      THEN IsStructuralOutcome(watch.log)
    ELSE IF Owners(watch.path) # {}
      THEN \E m \in Owners(watch.path) : IsModuleOutcome(watch.log, m)
    ELSE watch.log = <<>>

\* ------------------------------------------------------------------------
\* Claims about version resolution
\* ------------------------------------------------------------------------

\* The step is a resolveVersion call that returns at once, from the cache.
IsCacheHit ==
  /\ call.pc \in CallEnded
  /\ call'.pc = "done"
  /\ ~call'.calledVcs
  /\ UNCHANGED <<tree, cacheVars>>

\* The module or one of the dependencies the call names has uncommitted changes.
CallIsDirty(c) ==
  \/ tree[c.moduleName].dirty
  \/ \E i \in 1..Len(c.moduleDependencies) : tree[c.moduleDependencies[i].name].dirty

\* C18: a ModuleVersion whose dirtyTimestamp is not null is never served as a
\* cache hit, and a resolveVersion call for a module with uncommitted changes
\* is never answered from the cache: it computes the version from the VCS.
C18_DirtyVersionNeverServedFromCache ==
  [][IsCacheHit =>
       /\ call'.version.dirtyTimestamp = NullTimestamp
       /\ ~CallIsDirty(call')]_vars

\* The step is the start of a resolveVersion call: call' is the call made.
IsCallStart ==
  /\ call.pc \in CallEnded
  /\ call'.pc \in {"done", "awaitVcs"}
  /\ call'.pc = "done" => ~call'.calledVcs
  /\ UNCHANGED <<tree, cacheVars>>

\* The dependency names of a call, and those a cache key was made of.
DepSet(c) == {c.moduleDependencies[i].name : i \in 1..Len(c.moduleDependencies)}

KeyDeps(key) == {key[i] : i \in 3..Len(key)}

\* The cached versions of the call's module for the call's set of dependencies.
EntriesFor(c) == {key \in DOMAIN cache : key[2] = c.moduleName /\ KeyDeps(key) = DepSet(c)}

KeyModules(key) == {key[2]} \cup KeyDeps(key)

\* Path p is the root of one of the modules, or lies below it.
IsAtOrBelowRootOf(p, names) ==
  \E n \in names : PathIsAtOrAbove(ModuleConfig(n).path, StripTrailing(p))

\* C20: an invalidateUp for the path of m, of a module in deps, or for a path
\* below one of them evicts the version cached by resolveVersion(m, deps), and
\* the next resolveVersion(m, deps) without force goes to the VCS.
C20_InvalidateUpEvictsVersion ==
  [][/\ lastOp'.op = "invalidateUp" =>
          \A key \in DOMAIN cache :
            IsAtOrBelowRootOf(lastOp'.path, KeyModules(key)) => key \notin DOMAIN cache'
     /\ /\ IsCallStart /\ ~call'.force
        /\ lastOp.op = "invalidateUp"
        /\ IsAtOrBelowRootOf(lastOp.path, {call'.moduleName} \cup DepSet(call'))
        => call'.pc = "awaitVcs"]_vars

\* The version of modA with dependency modAB was evicted by an invalidateUp
\* of modAB's root, and the call made next for it is waiting for the VCS.
C20_Witness ==
  /\ lastOp.op = "invalidateUp"
  /\ lastOp.path = "/proj/modAB"
  /\ call.cacheKey \in lastOp.removed
  /\ call.pc = "awaitVcs" /\ ~call.force
  /\ DepSet(call) = {"modAB"}

\* The step starts a resolveVersion call for the key of a call that raised.
IsCallAfterRaise ==
  /\ call.pc = "raised"
  /\ IsCallStart
  /\ call'.cacheKey = call.cacheKey

\* The step is the one in which the VCS raises.
IsRaise == call.pc # "raised" /\ call'.pc = "raised"

FilePairs(fs) == {<<fs[i].path, fs[i].hash>> : i \in 1..Len(fs)}

DependencyPairs(ds) == {<<ds[i].name, ds[i].versionString>> : i \in 1..Len(ds)}

\* C22: versionString is a function of the set of (relative path, content
\* hash) pairs and the set of (dependency name, dependency versionString)
\* pairs: the version string hashed from one order of the file list and of
\* the dependency list is the one every other order of the same contents
\* yields.
C22_VersionStringIgnoresOrder ==
  /\ hashed # NoHash /\ FilePairs(files) = FilePairs(hashed.files)
       /\ DependencyPairs(dependencyVersions) = DependencyPairs(hashed.dependencyVersions)
     => getVersionString(files, dependencyVersions) = hashed.versionString
  /\ \A fs \in Reorderings(files), ds \in Reorderings(dependencyVersions) :
       getVersionString(fs, ds) = getVersionString(files, dependencyVersions)

\* A version was hashed, and the files and the dependencies are now listed
\* in another order.
C22_Witness ==
  /\ hashed # NoHash
  /\ Len(files) >= 2
  /\ Len(dependencyVersions) >= 2
  /\ files # hashed.files
  /\ dependencyVersions # hashed.dependencyVersions

\* ------------------------------------------------------------------------
\* ensureNamespace
\* ------------------------------------------------------------------------

\* C23: no ensureNamespace call for a namespace that did not exist returns
\* before the namespace has been created: callers that come while the first
\* one is creating it wait for the creation.
C23_NoReturnBeforeCreated ==
  \A c \in Callers : callers[c].pc = "returned" => cluster[callers[c].namespace] # "absent"

\* The step calls createNamespace for the namespace.
IsCreateCall(n) == createCalls'[n] # createCalls[n]

\* C24: createNamespace is invoked at most once for every namespace name in
\* one process, whatever the interleaving of the ensureNamespace calls, and
\* it is never invoked for a namespace the cluster lists as Active.
C24_CreateAtMostOnce ==
  [][\A n \in Namespaces :
       /\ createCalls'[n] <= 1
       /\ IsCreateCall(n) => cluster[n] # "Active" /\ created[n] = "pending"]_vars

\* Two callers asked for the same namespace, which did not exist: both calls
\* are over and one createNamespace call was made, while the other namespace
\* was found Active and no call was made for it.
C24_Witness ==
  \E n, o \in Namespaces :
    /\ createCalls[n] = 1
    /\ cluster[n] = "Active"
    /\ \A c \in Callers : callers[c].pc = "returned" /\ callers[c].namespace = n
    /\ created[o] = "created"
    /\ createCalls[o] = 0

\* ------------------------------------------------------------------------
\* The maven-container build
\* ------------------------------------------------------------------------

\* The builds whose mvn is running.
InMvn == {b \in Builds : builds[b] = "mvn"}

\* C25: at most one mvn execution is in progress at any time, whatever the
\* number of builds running, and it is the lock holder's; a build waits only
\* while another build's mvn is running, and the steps of a build outside
\* the lock can be taken whoever holds the lock.
C25_OneMvnAtATime ==
  /\ Cardinality(InMvn) <= 1
  /\ InMvn = IF buildLock.holder = 0 THEN {} ELSE {buildLock.holder}
  /\ \A b \in Builds : builds[b] = "waiting" <=> \E i \in 1..Len(buildLock.queue) : buildLock.queue[i] = b
  /\ buildLock.queue # <<>> => buildLock.holder # 0
  /\ \A b \in Builds :
       /\ builds[b] \in {"idle", "done", "raised"} => ENABLED Build(b)
       /\ builds[b] = "preparing" => ENABLED AcquireMvn(b)
       /\ builds[b] = "copying" => ENABLED BuildSettles(b, TRUE)

\* One build runs mvn while another waits for the lock and a third is
\* outside the lock.
C25_Witness ==
  \E a, b, c \in Builds :
    /\ builds[a] = "mvn"
    /\ builds[b] = "waiting"
    /\ builds[c] \in {"preparing", "copying"}

\* ------------------------------------------------------------------------
\* getFiles
\* ------------------------------------------------------------------------

\* The listed files that cannot be hashed any more: they need a fresh hash
\* and are gone, or are symlinks to directories.
Unhashable == {i \in 1..Len(withSubmodules) :
                 NeedsFreshHash(withSubmodules[i]) /\ withSubmodules[i].disk \in {"gone", "directory"}}

\* The listed files whose hashing fails with another error.
Failing == {i \in 1..Len(withSubmodules) :
              NeedsFreshHash(withSubmodules[i]) /\ withSubmodules[i].disk = "denied"}

\* C26: every file getFiles returns has a non-empty hash; the files returned
\* are the listed ones but for those that can no longer be hashed, which are
\* dropped and never make getFiles fail; getFiles fails only on another
\* hashing error, and never returns when there is one.
C26_ReturnedFilesHaveHashes ==
  /\ getFilesResult.status = "returned" =>
       /\ \A i \in 1..Len(getFilesResult.files) : getFilesResult.files[i].hash # ""
       /\ {getFilesResult.files[i].path : i \in 1..Len(getFilesResult.files)} =
            {withSubmodules[i].path : i \in (1..Len(withSubmodules)) \ Unhashable}
       /\ Failing = {}
  /\ getFilesResult.status = "raised" => Failing # {}
  /\ getFilesResult.status = "pending" /\ Failing = {} => ENABLED GetFilesNext

\* getFiles returned, and dropped a file that was gone and a symlink to a
\* directory.
C26_Witness ==
  /\ getFilesResult.status = "returned"
  /\ \E i, j \in Unhashable : withSubmodules[i].disk = "gone" /\ withSubmodules[j].disk = "directory"
  /\ Len(getFilesResult.files) < Len(withSubmodules)

\* ------------------------------------------------------------------------
\* Build status of exec and generic modules
\* ------------------------------------------------------------------------

\* What getBuildStatus would report in this state.
Ready == versionFile.readable /\ versionFile.versionString = moduleVersion

\* The step is a getBuildStatus call, a write of the version file, the
\* failure of a build, a change of the module's version.
IsStatusCall == buildStatus' # buildStatus

IsVersionFileWrite == versionFile' # versionFile

IsBuildFailure == buildCall.pc # "raised" /\ buildCall'.pc = "raised"

IsVersionChange == moduleVersion' # moduleVersion

\* What holds of getBuildStatus and of the version file whatever the version
\* changes to.
BuildStatusFollowsRecord ==
  /\ IsStatusCall =>
       /\ buildStatus'.version = moduleVersion
       /\ buildStatus'.ready <=> (versionFile.readable /\ versionFile.versionString = moduleVersion)
  /\ IsVersionFileWrite =>
       /\ buildCall.pc = "write" /\ buildCall'.pc = "done"
       /\ buildCall.exit # "failed"
       /\ buildCall.hasCommand => buildCall.exit = "ok"
  /\ IsBuildFailure =>
       /\ versionFile' = versionFile
       /\ Ready' <=> Ready

\* C27 as it is stated: over and above that, after any change of the version
\* the status is not-ready until the next successful build.
C27_AsStated ==
  [][/\ BuildStatusFollowsRecord
     /\ IsVersionChange => ~Ready'
     /\ ~Ready /\ Ready' => IsVersionFileWrite]_vars

\* C27: getBuildStatus reports ready exactly when the recorded built version
\* equals the module's current versionString; the record is only written by
\* a build whose command, if it has one, completed successfully, and a failed
\* build leaves the record and so the status as they were; after a change to
\* a version other than the recorded one the status is not-ready, and it
\* becomes ready only by the write of a successful build or by a change of
\* the version back to the recorded one.
C27_ReadyIffBuiltVersionIsCurrent ==
  [][/\ BuildStatusFollowsRecord
     /\ IsVersionChange /\ ~(versionFile.readable /\ versionFile.versionString = moduleVersion') => ~Ready'
     /\ ~Ready /\ Ready' =>
          \/ IsVersionFileWrite
          \/ IsVersionChange /\ versionFile.readable /\ versionFile.versionString = moduleVersion']_vars

\* The module was built, its version changed, a build of the new version
\* failed, and getBuildStatus reported not-ready for it.
C27_Witness ==
  /\ versionFile.readable
  /\ versionFile.versionString # moduleVersion
  /\ buildCall.pc = "raised"
  /\ buildCall.version = moduleVersion
  /\ buildStatus.asked
  /\ buildStatus.version = moduleVersion
  /\ ~buildStatus.ready

\* ------------------------------------------------------------------------
\* DeleteServiceTask
\* ------------------------------------------------------------------------

\* The services that depend on the service, directly or through others.
Dependants(service) == Reach(graph, {}, {service})

\* C28: the dependencies of a DeleteServiceTask made with includeDependants
\* are the delete tasks of the services that depend on its service, and so on
\* for each of them, so that the call has a task for every service that
\* depends on it through others; the service is deleted only after every one
\* of them was deleted successfully, and not at all if the deletion of one of
\* them failed. A task made without includeDependants has no dependencies.
C28_DependantsAreDeletedFirst ==
  /\ \A k \in DOMAIN depKeys :
       depKeys[k] = IF nodes[k].includeDependants
                      THEN {getKey(DeleteServiceTask(s, TRUE, 0)) : s \in graph[getName(nodes[k])]}
                      ELSE {}
  /\ phase \in {"executing", "returned"} =>
       \A k \in DOMAIN nodes :
         nodes[k].includeDependants =>
           \A d \in Dependants(getName(nodes[k])) : TrueKey(d) \in DOMAIN nodes
  /\ \A u \in DOMAIN runs :
       IF runs[u].task.includeDependants
         THEN \A d \in Dependants(runs[u].task.name) :
                /\ TaskState(TrueKey(d)) = "done"
                /\ \E v \in Invocations(d) : runs[v].state = "ok"
                /\ d \notin Thrown
         ELSE runs[u].dependencyResults = EmptyMap
  /\ \A s \in ServiceNames :
       includeDependants /\ Thrown \cap Dependants(s) # {} => Invocations(s) = {}

\* A service was deleted after a service that depends on it only through a
\* third one.
C28_Witness ==
  /\ includeDependants
  /\ \E u \in DOMAIN runs :
       /\ runs[u].state = "ok"
       /\ \E d \in Dependants(runs[u].task.name) : d \notin graph[runs[u].task.name]

\* ------------------------------------------------------------------------
\* resolveProviders
\* ------------------------------------------------------------------------

\* The provider dependencies have a cycle.
ProvidersCyclic == \E p \in Providers : p \in Reach(pluginDeps, {}, {p})

\* The step in which the call of caller c raises.
Raises(c) == resolvers[c].pc # "raised" /\ resolvers'[c].pc = "raised"

\* The callers inside the locked function.
InLock == {c \in Resolvers : resolvers[c].pc \in {"locked", "tasks", "adding"}}

C30_ResolvedOnce ==
  [][/\ Cardinality(InLock') <= 1
     /\ InLock' = IF resolveLock'.holder = 0 THEN {} ELSE {resolveLock'.holder}
     /\ resolvedProviders.set =>
          /\ attempts' = attempts
          /\ resolvedProviders' = resolvedProviders
     /\ \A c \in Resolvers :
          resolvers'[c].pc = "returned" =>
            /\ resolvers'[c].result.set
            /\ resolvers'[c].result = resolvedProviders'
            /\ \A d \in Resolvers :
                 resolvers'[d].pc = "returned" => resolvers'[d].result = resolvers'[c].result]_vars

\* A forced call waited for the lock while another call resolved the
\* providers, and both have returned after one round of provider tasks.
C30_Witness ==
  \E c, d \in Resolvers :
    /\ c # d
    /\ resolvers[c].pc = "returned"
    /\ ~resolvers[c].waited
    /\ resolvers[d].pc = "returned"
    /\ resolvers[d].waited
    /\ resolvers[d].forceInit
    /\ attempts = 1

\* The version was computed from the files as they are now.
IsCurrent(version, c) ==
  /\ version.versionString[1].rev = tree[c.moduleName].rev
  /\ \A i \in 2..Len(version.versionString) :
       version.versionString[i].rev = tree[version.versionString[i].name].rev

\* No resolveVersion call is in flight and the watcher has handled every change.
VersionsSettled ==
  /\ call.pc \in CallEnded
  /\ \A n \in DOMAIN tree : ~tree[n].unseen

\* C34: once a resolveVersion call and the watcher's invalidation for a
\* change of the module have both finished, in whatever order their steps
\* were taken, the cache holds no version of the module computed from the
\* files before the change, so the next call without force does not return
\* one.
C34_NoStaleVersionAfterRace ==
  VersionsSettled /\ call.pc = "done" /\ call.cacheKey \in DOMAIN cache
    => IsCurrent(cache[call.cacheKey].value, call)

\* The doSync run i of the call rejected with the greeting text in its message.
LostGreeting(i) ==
  /\ ~sync.attempts[i].ok
  /\ \E k \in DOMAIN sync.attempts[i].message :
       sync.attempts[i].message[k] = "did not see server greeting"

\* C31: syncToService runs the sync at most twice; the second run happens
\* exactly when the first one failed with a message containing "did not see
\* server greeting", after the port-forward was killed once; no other failure
\* is retried, and the call raises exactly when its last run failed, with a
\* RuntimeError wrapping that failure.
C31_RetriesOnceOnLostGreeting ==
  /\ Len(sync.attempts) <= 2
  /\ sync.killed = (IF Len(sync.attempts) >= 1 /\ LostGreeting(1) THEN 1 ELSE 0)
  /\ Len(sync.attempts) = 2 => LostGreeting(1)
  /\ Len(sync.attempts) = 0 => sync.pc \in {"idle", "doSync"}
  /\ Len(sync.attempts) = 1 /\ LostGreeting(1) => sync.pc = "doSync"
  /\ sync.pc = "doSync" => Len(sync.attempts) = 0 \/ (Len(sync.attempts) = 1 /\ LostGreeting(1))
  /\ sync.pc = "returned" <=> (Len(sync.attempts) >= 1 /\ sync.attempts[Len(sync.attempts)].ok)
  /\ sync.pc = "raised" =>
       /\ ~sync.attempts[Len(sync.attempts)].ok
       /\ Len(sync.attempts) = 1 => ~LostGreeting(1)
       /\ sync.error.type = "RuntimeError"
       /\ sync.error.cause = sync.attempts[Len(sync.attempts)].message
  /\ sync.pc # "raised" => sync.error = NoSyncError

\* The retry failed as well, again with the greeting text, and was not retried.
C31_Witness ==
  /\ sync.pc = "raised"
  /\ Len(sync.attempts) = 2
  /\ LostGreeting(2)
  /\ sync.killed = 1

\* The modules one build or service dependency away from a module of S.
ReloadDependenciesOf(S) ==
  {d \in ReloadNames :
     \E m \in S : \E i \in 1..3 :
       \/ i <= Len(buildDependencies[m]) /\ buildDependencies[m][i] = d
       \/ i <= Len(serviceDependencies[m]) /\ serviceDependencies[m][i] = d}

RECURSIVE ReachableModules(_)
ReachableModules(S) ==
  IF ReloadDependenciesOf(S) \subseteq S THEN S ELSE ReachableModules(S \cup ReloadDependenciesOf(S))

\* The call has returned exactly the modules reachable from its input, each
\* name once.
ReloadReturned ==
  /\ reload.pc = "returned"
  /\ {reload.result[i] : i \in 1..Len(reload.result)} =
       ReachableModules({reload.modules[i] : i \in 1..Len(reload.modules)})
  /\ \A i, j \in 1..Len(reload.result) : reload.result[i] = reload.result[j] => i = j

\* C32: on every dependency graph, cyclic ones included, a started
\* autoReloadModules(modules) call returns, and what it returns is exactly
\* the modules reachable from the input through build and service
\* dependencies, the input included, each name once.
C32_ReturnsReachableModulesOnce ==
  /\ [](reload.pc = "returned" => ReloadReturned)
  /\ (reload.pc = "scanning" ~> ReloadReturned)

\* A call on a cycle api -> web -> db -> api, the last edge a service
\* dependency, has returned all three modules from the input api.
C32_Witness ==
  /\ reload.pc = "returned"
  /\ buildDependencies = [m \in ReloadNames |-> IF m = "api" THEN <<"web">> ELSE IF m = "web" THEN <<"db">> ELSE <<>>]
  /\ serviceDependencies = [m \in ReloadNames |-> IF m = "db" THEN <<"api">> ELSE <<>>]
  /\ reload.result = <<"api", "web", "db">>

\* The validation run i of the call reported the configuration valid.
ReportedValid(i) == tf.runs[i].valid.type = "boolean" /\ tf.runs[i].valid.text = "true"

\* C33: tfValidate validates again, once, after `terraform init` when the
\* first validation failed with "Could not satisfy plugin requirements", and
\* it returns normally only when one of its validation runs reported the
\* configuration valid: a retried validation that is still invalid raises
\* the validation error.
C33_ReturnsOnlyWhenValid ==
  /\ Len(tf.runs) <= 2
  /\ Len(tf.runs) = 2 => tf.inits = 1
  /\ tf.pc = "returned" => \E i \in 1..Len(tf.runs) : ReportedValid(i)

\* ------------------------------------------------------------------------
\* Further claims about the file watcher
\* ------------------------------------------------------------------------

\* C35: when the watcher is through with a file event that is not structural
\* and whose path lies under several nested module roots, it has invalidated
\* the innermost module containing the file and invoked onChange for it,
\* whatever the order of the module list, and the cache holds no entry tagged
\* with the root of a module containing the file.
C35_NestedRootsInnermostWins ==
  /\ Settled("file")
  /\ watch.path \notin ConfigOrIgnoreFiles
  /\ Cardinality(Owners(watch.path)) >= 2
  => /\ IsModuleOutcome(watch.log, Innermost(watch.path))
     /\ \A m \in Owners(watch.path) : TaggedAt(cache, m) = {}

\* C36: for every event, whatever its kind, each onChange(null, true) the
\* watcher invokes comes after invalidateUp was applied to every known
\* module.
C36_InvalidateAllBeforeStructuralCallback ==
  \A i \in 1..Len(watch.log) :
    watch.log[i] = OnChangeEffect(NoModule, TRUE) =>
      {m.name : m \in KnownModules} \subseteq Invalidated(SubSeq(watch.log, 1, i - 1))

\* C37: paths are attributed to modules by path segments: every module the
\* watcher invalidates alone or names in onChange(module, false) contains the
\* event's path, and a removed directory is handled as structural only if it
\* is the root of a watched module or a directory above one.
C37_AttributionByPathSegments ==
  watch.pc = "idle" /\ watch.kind # "none" =>
    /\ \A i \in 1..Len(watch.log) :
         watch.log[i].do = "onChange" /\ watch.log[i].module # NoModule.name =>
           \E m \in Watched : m.name = watch.log[i].module /\ PathIsAtOrAbove(m.path, watch.path)
    /\ watch.kind = "unlinkDir" /\ Calls(watch.log) # <<>> /\ Calls(watch.log)[1] = OnChangeEffect(NoModule, TRUE) =>
         \E m \in Watched : PathIsAtOrAbove(watch.path, m.path)

\* ------------------------------------------------------------------------
\* Further claims about ensureNamespace
\* ------------------------------------------------------------------------

\* The step is caller c calling ensureNamespace(n) while no other call for n
\* is in flight and the cluster has no namespace n.
IsEnsureCallForMissing(c, n) ==
  /\ callers[c].pc \in CallerEnded
  /\ callers'[c].pc \in {"awaitList", "returned"}
  /\ callers'[c].namespace = n
  /\ \A d \in Callers \ {c} : callers'[d] = callers[d]
  /\ \A d \in Callers : callers[d].namespace = n => callers[d].pc \in CallerEnded
  /\ cluster[n] = "absent"
  /\ cluster' = cluster

\* C38: when listing or creating the namespace failed inside an
\* ensureNamespace(ns) call, a later ensureNamespace(ns) call does not return
\* at once while ns does not exist: it goes through the listing and the
\* creation again.
C38_FailedEnsureIsRetried ==
  [][\A c \in Callers, n \in Namespaces :
       /\ IsEnsureCallForMissing(c, n)
       /\ \E d \in Callers : callers[d].pc = "raised" /\ callers[d].namespace = n
       => callers'[c].pc = "awaitList"]_vars

\* C39: when deleteNamespaces([ns]) has completed in a process that had
\* ensured ns before, a later ensureNamespace(ns) call does not return at
\* once while ns does not exist: it creates the namespace again.
C39_EnsureAfterDeleteCreatesAgain ==
  [][\A c \in Callers, n \in Namespaces :
       /\ IsEnsureCallForMissing(c, n)
       /\ created[n] = "created"
       /\ \E d \in Callers : callers[d].pc = "deleted" /\ callers[d].namespace = n
       => callers'[c].pc = "awaitList"]_vars

\* ------------------------------------------------------------------------
\* Claims about scanModules
\* ------------------------------------------------------------------------

\* The keys of the registered modules.
RegisteredKeys(configs) == {k \in ModuleKeys : configs[k] # ""}

\* C40: a forced scanModules whose scan runs after a completed scan, with the
\* same configs on disk, completes without error and leaves moduleConfigs
\* with the same keys: it does not raise "declared multiple times" for the
\* modules the earlier scan registered.
C40_ForcedRescanIsIdempotent ==
  [][\A c \in Scanners :
       /\ scanners[c].pc = "scanning"
       /\ scanners[c].force
       /\ modulesScanned
       /\ scanners'[c].error # "scan failed"
       /\ scanners'[c].pc # "scanning"
       => /\ scanners'[c].pc = "returned"
          /\ RegisteredKeys(moduleConfigs') = RegisteredKeys(moduleConfigs)]_vars
====
